---------------------------- MODULE Spec2Model ----------------------------
(***************************************************************************)
(* A model of music21/braille/basic.py: the element encoders, the octave   *)
(* heuristic, the grouping encoder (transcribeNoteGrouping) and the        *)
(* key-signature encoder.                                                  *)
(*                                                                         *)
(* A braille string is a sequence of cells; a cell is the number whose bit *)
(* n-1 is dot n (the offset of the cell from U+2800).  A call's outcome is  *)
(* a record [exc, val]: exc = "none" and val the returned string, or exc   *)
(* the name of the exception that left the call.                           *)
(***************************************************************************)
EXTENDS Integers, Sequences, FiniteSets, TLC

VARIABLES
    grouping,           \* transcribeNoteGrouping: the element sequence
    before,             \* the elements given to the call, as they were when it began
    cfg,                \* the grouping's configuration attributes (a partial function)
    cfg0,               \* cfg as it was before the call
    slo0,               \* the showLeadingOctave argument of the top-level call
    pc,                 \* position of the call
    idx,                \* index of the element the for loop handles next
    trans,              \* the list trans
    previousNote,       \* the local previousNote
    previousElement,    \* the local previousElement
    showLeadingOctave,  \* the parameter/local showLeadingOctave
    depth,              \* number of retries (recursive calls) made so far
    last,               \* what the last loop iteration did
    outcome,            \* outcome of the top-level call
    call,               \* a single call of an encoder: the function and its arguments
    ret,                \* a single call of an encoder: its outcome
    beamStatus,         \* the module-level dict beamStatus
    threads             \* concurrent noteToBraille calls: per-thread position and locals

\* the variables of a call of transcribeNoteGrouping
gvars == <<grouping, before, cfg, cfg0, slo0, idx, trans, previousNote, previousElement,
           showLeadingOctave, depth, last, outcome>>
vars == <<grouping, before, cfg, cfg0, slo0, pc, idx, trans, previousNote, previousElement,
          showLeadingOctave, depth, last, outcome, call, ret, beamStatus, threads>>

-----------------------------------------------------------------------------
(* Outcomes, None, strings                                                  *)

None == [kind |-> "None"]

Returned(v) == [exc |-> "none", val |-> v]
Raised(e) == [exc |-> e, val |-> <<>>]
Idle == [exc |-> "pending", val |-> <<>>]

RECURSIVE Join(_)
Join(list) == IF list = <<>> THEN <<>> ELSE Head(list) \o Join(Tail(list))

RECURSIVE Repeat(_, _)
Repeat(s, n) == IF n <= 0 THEN <<>> ELSE s \o Repeat(s, n - 1)

Abs(n) == IF n < 0 THEN -n ELSE n

\* the outcome of two computations made one after the other, their strings joined
Both(first, second) ==
    IF first.exc # "none" THEN first
    ELSE IF second.exc # "none" THEN second
    ELSE Returned(first.val \o second.val)

\* an except clause that answers exception e with the string v
Catch(r, e, v) == IF r.exc = e THEN Returned(v) ELSE r

-----------------------------------------------------------------------------
(* Cells and the lookup tables                                              *)

Cell(dots) ==
    (IF 1 \in dots THEN 1 ELSE 0) + (IF 2 \in dots THEN 2 ELSE 0)
    + (IF 3 \in dots THEN 4 ELSE 0) + (IF 4 \in dots THEN 8 ELSE 0)
    + (IF 5 \in dots THEN 16 ELSE 0) + (IF 6 \in dots THEN 32 ELSE 0)

Row(c, left, right) ==
    IF (c \div left) % 2 = 1
    THEN (IF (c \div right) % 2 = 1 THEN "11" ELSE "10")
    ELSE (IF (c \div right) % 2 = 1 THEN "01" ELSE "00")

\* lookup.binary_dots[cell] = (dots14, dots25, dots36); in a pair the first
\* character is the left dot (1, 2, 3), the second the right dot (4, 5, 6).
binary_dots(c) == << Row(c, 1, 8), Row(c, 2, 16), Row(c, 4, 32) >>

symbols ==
    [ basic_exception      |-> << Cell({3,4,5}), Cell({2,3,6}) >>,
      dot                  |-> << Cell({3}) >>,
      word                 |-> << Cell({3,4,5}) >>,
      space                |-> << Cell({}) >>,
      common               |-> << Cell({4,6}), Cell({1,4}) >>,

      uppercase            |-> << Cell({6}) >>,
      metronome            |-> << Cell({2,3,5,6}) >>,
      number               |-> << Cell({3,4,5,6}) >>,
      triplet              |-> << Cell({2,3}) >>,
      tie                  |-> << Cell({4}), Cell({1,4}) >>,
      opening_single_slur  |-> << Cell({1,4}) >>,
      opening_double_slur  |-> << Cell({1,4}), Cell({1,4}) >>,
      closing_double_slur  |-> << Cell({1,4}) >>,
      opening_bracket_slur |-> << Cell({5,6}), Cell({1,2}) >>,
      closing_bracket_slur |-> << Cell({4,5}), Cell({2,3}) >>,
      finger_change        |-> << Cell({1,4}) >>,
      first_set_missing_fingermark  |-> << Cell({6}) >>,
      second_set_missing_fingermark |-> << Cell({3}) >> ]

\* lookup.fingerMarks: the marks of the fingers '1' .. '5'
fingerMarks ==
    [ m \in {"1", "2", "3", "4", "5"} |->
        CASE m = "1" -> << Cell({1}) >>     [] m = "2" -> << Cell({1,2}) >>
          [] m = "3" -> << Cell({1,2,3}) >> [] m = "4" -> << Cell({2}) >>
          [] m = "5" -> << Cell({1,3}) >> ]

alphabet ==
    [ c \in {"c", "d", "e", "f", "p", ",", "."} |->
        CASE c = "c" -> << Cell({1,4}) >>
          [] c = "d" -> << Cell({1,4,5}) >>
          [] c = "e" -> << Cell({1,5}) >>
          [] c = "f" -> << Cell({1,2,4}) >>
          [] c = "p" -> << Cell({1,2,3,4}) >>
          [] c = "," -> << Cell({2}) >>
          [] c = "." -> << Cell({2,5,6}) >> ]

\* str.isupper() and str.lower() on the characters of the model: "F" is an
\* upper-case letter of the table, "E_ACUTE" an upper-case letter whose lower
\* case, "e_acute", has no entry in alphabet.
isupper(c) == c \in {"F", "E_ACUTE"}
lower(c) == CASE c = "F" -> "f" [] c = "E_ACUTE" -> "e_acute" [] OTHER -> c

numbers ==
    [ d \in 0..9 |->
        CASE d = 0 -> << Cell({2,4,5}) >> [] d = 1 -> << Cell({1}) >>
          [] d = 2 -> << Cell({1,2}) >>   [] d = 3 -> << Cell({1,4}) >>
          [] d = 4 -> << Cell({1,4,5}) >> [] d = 5 -> << Cell({1,5}) >>
          [] d = 6 -> << Cell({1,2,4}) >> [] d = 7 -> << Cell({1,2,4,5}) >>
          [] d = 8 -> << Cell({1,2,5}) >> [] d = 9 -> << Cell({2,4}) >> ]

accidentals ==
    [ a \in {"sharp", "flat", "natural"} |->
        CASE a = "sharp" -> << Cell({1,4,6}) >>
          [] a = "flat" -> << Cell({1,2,6}) >>
          [] a = "natural" -> << Cell({1,6}) >> ]

octaves ==
    [ o \in 0..8 |->
        CASE o = 0 -> << Cell({4}), Cell({4}) >> [] o = 1 -> << Cell({4}) >>
          [] o = 2 -> << Cell({4,5}) >>   [] o = 3 -> << Cell({4,5,6}) >>
          [] o = 4 -> << Cell({5}) >>     [] o = 5 -> << Cell({4,6}) >>
          [] o = 6 -> << Cell({5,6}) >>   [] o = 7 -> << Cell({6}) >>
          [] o = 8 -> << Cell({6}), Cell({6}) >> ]

intervals ==
    [ i \in 2..8 |->
        CASE i = 2 -> << Cell({3,4}) >>     [] i = 3 -> << Cell({3,4,6}) >>
          [] i = 4 -> << Cell({3,4,5,6}) >> [] i = 5 -> << Cell({3,5}) >>
          [] i = 6 -> << Cell({3,5,6}) >>   [] i = 7 -> << Cell({2,5}) >>
          [] i = 8 -> << Cell({3,6}) >> ]

StepSet == { "C", "D", "E", "F", "G", "A", "B" }
StepIndex(s) ==
    CASE s = "C" -> 1 [] s = "D" -> 2 [] s = "E" -> 3 [] s = "F" -> 4
      [] s = "G" -> 5 [] s = "A" -> 6 [] s = "B" -> 7

eighthDots(step) ==
    CASE step = "C" -> {1,4,5} [] step = "D" -> {1,5}   [] step = "E" -> {1,2,4}
      [] step = "F" -> {1,2,4,5} [] step = "G" -> {1,2,5} [] step = "A" -> {2,4}
      [] step = "B" -> {2,4,5}

\* lookup.pitchNameToNotes[step]: duration type -> glyph
pitchNameToNotes(step) ==
    [ t \in {"16th", "eighth", "quarter", "half", "whole"} |->
        CASE t = "eighth" -> << Cell(eighthDots(step)) >>
          [] t = "quarter" -> << Cell(eighthDots(step) \cup {6}) >>
          [] t = "half" -> << Cell(eighthDots(step) \cup {3}) >>
          [] t \in {"whole", "16th"} -> << Cell(eighthDots(step) \cup {3, 6}) >> ]

rests ==
    [ t \in {"eighth", "quarter", "half", "whole"} |->
        CASE t = "eighth" -> << Cell({1,3,4,6}) >>
          [] t = "quarter" -> << Cell({1,2,3,6}) >>
          [] t = "half" -> << Cell({1,3,6}) >>
          [] t = "whole" -> << Cell({1,3,4}) >> ]

barlines ==
    [ s \in {"final", "double", "heavy"} |->
        CASE s = "final" -> << Cell({1,2,6}), Cell({1,3}) >>
          [] s = "double" -> << Cell({1,2,6}), Cell({1,3}), Cell({3}) >>
          [] s = "heavy" -> << Cell({1,2,3}) >> ]

\* lookup.clefs: 'prefix', 'suffix' -> changeSuffix -> glyph, and sign -> line -> glyph
clefs ==
    [ sign \in {"prefix", "suffix", "G", "C", "F"} |->
        CASE sign = "prefix" -> << Cell({3,4,5}) >>
          [] sign = "suffix" -> [ changeSuffix \in BOOLEAN |->
                                   IF changeSuffix THEN << Cell({1,3}) >>
                                   ELSE << Cell({1,2,3}) >> ]
          [] sign = "G" -> [ l \in {2} |-> << Cell({3,4}) >> ]
          [] sign = "C" -> [ l \in {3, 4} |->
                              IF l = 3 THEN << Cell({3,4,6}) >>
                              ELSE << Cell({3,4,6}), Cell({5}) >> ]
          [] sign = "F" -> [ l \in {4} |-> << Cell({3,4,5,6}) >> ] ]

beforeNoteExpr ==
    [ a \in {"staccato", "staccatissimo", "accent", "tenuto"} |->
        CASE a = "staccato" -> << Cell({2,3,6}) >>
          [] a = "staccatissimo" -> << Cell({6}), Cell({2,3,6}) >>
          [] a = "accent" -> << Cell({4,6}), Cell({2,3,6}) >>
          [] a = "tenuto" -> << Cell({4,5,6}), Cell({2,3,6}) >> ]

\* lookup.textExpressions: phrases with a fixed transcription
textExpressions ==
    [ c \in { <<"c", ".">> } |-> << Cell({3,4,5}), Cell({1,4}), Cell({1,2,3,5}), Cell({3}) >> ]

\* lookup.keySignatures and lookup.naturals, for -7..7 and 0..7
keySignatures ==
    [ n \in -7..7 |->
        IF n = 0 THEN <<>>
        ELSE LET sign == IF n > 0 THEN accidentals["sharp"] ELSE accidentals["flat"]
             IN IF Abs(n) <= 3 THEN Repeat(sign, Abs(n))
                ELSE symbols.number \o numbers[Abs(n)] \o sign ]

naturals ==
    [ n \in 0..7 |->
        IF n <= 3 THEN Repeat(accidentals["natural"], n)
        ELSE symbols.number \o numbers[n] \o accidentals["natural"] ]


-----------------------------------------------------------------------------
(* Pitches and intervals (music21.pitch, music21.interval)                  *)

Pitch(step, octave, acc) == [step |-> step, octave |-> octave, acc |-> acc]

semitones(step) ==
    CASE step = "C" -> 0 [] step = "D" -> 2 [] step = "E" -> 4 [] step = "F" -> 5
      [] step = "G" -> 7 [] step = "A" -> 9 [] step = "B" -> 11

\* Pitch.ps, the key pitches are ordered by
ps(p) ==
    12 * (p.octave + 1) + semitones(p.step)
    + (CASE p.acc = "sharp" -> 1 [] p.acc = "flat" -> -1 [] OTHER -> 0)

\* Pitch.diatonicNoteNum
diatonicNoteNum(p) == 7 * p.octave + StepIndex(p.step)

\* interval.notesToInterval(a, b).generic.undirected: 1 for a unison, 8 for an octave
genericUndirected(a, b) == Abs(diatonicNoteNum(b) - diatonicNoteNum(a)) + 1

without(s, i) == SubSeq(s, 1, i - 1) \o SubSeq(s, i + 1, Len(s))

\* the first of the smallest keys of a sequence of keys
minIndex(keys) ==
    CHOOSE i \in 1..Len(keys) :
        \A j \in 1..Len(keys) : keys[i] < keys[j] \/ (keys[i] = keys[j] /\ i <= j)

\* sorted(s, key = ...) and list.sort(key = ...): ascending by keys[i], the key
\* of s[i]; equal keys stay in their order
RECURSIVE sortedBy(_, _)
minFirst(s, keys, i) == << s[i] >> \o sortedBy(without(s, i), without(keys, i))
sortedBy(s, keys) == IF s = <<>> THEN <<>> ELSE minFirst(s, keys, minIndex(keys))

\* sorted(pitches): a Pitch compares by ps
sortedPitches(pitches) == sortedBy(pitches, [ i \in 1..Len(pitches) |-> ps(pitches[i]) ])

RECURSIVE Reverse(_)
Reverse(s) == IF s = <<>> THEN <<>> ELSE Reverse(Tail(s)) \o << Head(s) >>

-----------------------------------------------------------------------------
(* Transcription of words and numbers                                       *)

\* one letter of wordToBraille's text-expression loop (lines 1326-1337)
letterInTextExpression(letter) ==
    IF isupper(letter)
    THEN (IF lower(letter) \in DOMAIN alphabet
          THEN Returned(alphabet[lower(letter)]) ELSE Raised("KeyError"))
    ELSE IF letter = "." THEN Returned(symbols.dot)
    ELSE IF letter \in DOMAIN alphabet
         THEN Returned(alphabet[letter]) ELSE Raised("BrailleBasicException")

\* one letter of wordToBraille's normal loop (lines 1340-1349)
letterInWord(letter) ==
    IF isupper(letter)
    THEN (IF lower(letter) \in DOMAIN alphabet
          THEN Returned(symbols.uppercase \o alphabet[lower(letter)])
          ELSE Raised("BrailleBasicException"))
    ELSE IF letter \in DOMAIN alphabet
         THEN Returned(alphabet[letter]) ELSE Raised("BrailleBasicException")

RECURSIVE wordToBraille(_, _)
wordToBraille(sampleWord, isTextExpression) ==
    IF sampleWord = <<>> THEN Returned(<<>>)
    ELSE Both(IF isTextExpression THEN letterInTextExpression(Head(sampleWord))
              ELSE letterInWord(Head(sampleWord)),
              wordToBraille(Tail(sampleWord), isTextExpression))

\* int(digit), -1 standing for ValueError
digitValue(d) ==
    CASE d = "0" -> 0 [] d = "1" -> 1 [] d = "2" -> 2 [] d = "3" -> 3 [] d = "4" -> 4
      [] d = "5" -> 5 [] d = "6" -> 6 [] d = "7" -> 7 [] d = "8" -> 8 [] d = "9" -> 9
      [] OTHER -> -1

\* lines 1369-1374
RECURSIVE digitsToBraille(_)
digitsToBraille(digits) ==
    IF digits = <<>> THEN Returned(<<>>)
    ELSE Both(IF digitValue(Head(digits)) < 0 THEN Raised("BrailleBasicException")
              ELSE Returned(numbers[digitValue(Head(digits))]),
              digitsToBraille(Tail(digits)))

\* sampleNumber is given as str(sampleNumber), a sequence of characters
numberToBraille(sampleNumber, withNumberSign) ==
    Both(Returned(IF withNumberSign THEN symbols.number ELSE <<>>),
         digitsToBraille(sampleNumber))

\* str.split(): the maximal runs of non-blank characters
RECURSIVE splitFrom(_, _)
splitFrom(text, word) ==
    IF text = <<>> THEN (IF word = <<>> THEN <<>> ELSE << word >>)
    ELSE IF Head(text) = " "
         THEN (IF word = <<>> THEN <<>> ELSE << word >>) \o splitFrom(Tail(text), <<>>)
         ELSE splitFrom(Tail(text), Append(word, Head(text)))

split(text) == splitFrom(text, <<>>)

-----------------------------------------------------------------------------
(* transcribeNoteFingering (lines 947-1056); a fingering is a sequence of    *)
(* characters                                                               *)

\* table[key], KeyError when the table has no such key
lookup(table, key) == IF key \in DOMAIN table THEN Returned(table[key]) ELSE Raised("KeyError")

\* str.split(sep): the pieces between the separators, empty pieces included
RECURSIVE splitOnFrom(_, _, _)
splitOnFrom(text, sep, piece) ==
    IF text = <<>> THEN << piece >>
    ELSE IF Head(text) = sep THEN << piece >> \o splitOnFrom(Tail(text), sep, <<>>)
    ELSE splitOnFrom(Tail(text), sep, Append(piece, Head(text)))

splitOn(text, sep) == splitOnFrom(text, sep, <<>>)

\* fingerMarks[token]: the keys of the table are single characters
markOf(token) ==
    IF Len(token) = 1 THEN lookup(fingerMarks, token[1]) ELSE Raised("KeyError")

\* lines 1023-1030: the tokens of the choice and whether a token may be absent
choiceOf(byComma, byBar) ==
    IF Len(byComma) = 2 THEN [ exc |-> "none", choice |-> byComma, allowAbsence |-> TRUE ]
    ELSE IF Len(byComma) = 1
         THEN [ exc |-> "none", choice |-> byBar, allowAbsence |-> FALSE ]
    ELSE [ exc |-> "KeyError", choice |-> <<>>, allowAbsence |-> FALSE ]

\* absentMark taking the glyph of the first set wherever the token stands
absentMarkFirst(i) == symbols.first_set_missing_fingermark

\* lines 1049-1052: the glyph of a missing mark, i the index in the list choice
absentMark(i) ==
    IF i = 0 THEN symbols.first_set_missing_fingermark
    ELSE symbols.second_set_missing_fingermark

\* lines 1042-1052: the except clause around fingerMarks[changeMark]
markOrAbsent(r, i, allowAbsence) ==
    IF r.exc = "KeyError" /\ allowAbsence THEN Returned(absentMark(i)) ELSE r

\* lines 1034-1053 for choice[i], change its pieces between '-'; a token of
\* three or more pieces appends nothing
tokenToBraille(change, i, allowAbsence) ==
    IF Len(change) = 2
    THEN Both(markOf(change[1]), Both(Returned(symbols.finger_change), markOf(change[2])))
    ELSE IF Len(change) = 1 THEN markOrAbsent(markOf(change[1]), i, allowAbsence)
    ELSE Returned(<<>>)

\* the loop of lines 1033-1053 from index i (counted from 0) on
RECURSIVE choiceToBraille(_, _, _)
choiceToBraille(choice, i, allowAbsence) ==
    IF i >= Len(choice) THEN Returned(<<>>)
    ELSE Both(tokenToBraille(splitOn(choice[i + 1], "-"), i, allowAbsence),
              choiceToBraille(choice, i + 1, allowAbsence))

\* orderedChoice leaving the tokens in the order they are given in
orderedChoiceAsGiven(choice, upperFirstInFingering) == choice

\* lines 1031-1032
orderedChoice(choice, upperFirstInFingering) ==
    IF ~upperFirstInFingering THEN Reverse(choice) ELSE choice

\* lines 1022-1054 on the outcome c of choiceOf
fingeringOfChoice(c, upperFirstInFingering) ==
    IF c.exc # "none" THEN Raised(c.exc)
    ELSE choiceToBraille(orderedChoice(c.choice, upperFirstInFingering), 0, c.allowAbsence)

\* lines 1055-1056: except KeyError: raise BrailleBasicException
asBasicException(r) ==
    IF r.exc = "KeyError" THEN Raised("BrailleBasicException") ELSE r

transcribeNoteFingering(sampleNoteFingering, upperFirstInFingering) ==
    asBasicException(
        IF Len(sampleNoteFingering) = 1 THEN lookup(fingerMarks, sampleNoteFingering[1])
        ELSE fingeringOfChoice(choiceOf(splitOn(sampleNoteFingering, ","),
                                        splitOn(sampleNoteFingering, "|")),
                               upperFirstInFingering))

-----------------------------------------------------------------------------
(* Translation between braille unicode and braille ASCII (lines 1202-1275).  *)
(* A unicode string is a sequence of cells and line breaks, an ASCII string  *)
(* a sequence of characters.                                                *)

\* the line break u'\n' within a sequence of cells
newline == 64

\* lookup.ascii_chars: the braille ASCII character of each cell, the cells in
\* the order of their code points
ascii_chars ==
    [ c \in 0..63 |->
        << " ", "A", "1", "B", "'", "K", "2", "L", "@", "C", "I", "F", "/", "M", "S", "P",
           "\"", "E", "3", "H", "9", "O", "6", "R", "^", "D", "J", "G", ">", "N", "T", "Q",
           ",", "*", "5", "<", "-", "U", "8", "V", ".", "%", "[", "$", "+", "X", "!", "&",
           ";", ":", "4", "\\", "0", "Z", "7", "(", "_", "?", "W", "]", "#", "Y", ")", "="
        >>[c + 1] ]

\* lines 1262-1264: the table read the other way
braille_chars ==
    [ a \in { ascii_chars[c] : c \in DOMAIN ascii_chars } |->
        CHOOSE c \in DOMAIN ascii_chars : ascii_chars[c] = a ]

\* str.upper() on one character
upper(char) ==
    LET small == << "a", "b", "c", "d", "e", "f", "g", "h", "i", "j", "k", "l", "m",
                    "n", "o", "p", "q", "r", "s", "t", "u", "v", "w", "x", "y", "z" >>
        capital == << "A", "B", "C", "D", "E", "F", "G", "H", "I", "J", "K", "L", "M",
                      "N", "O", "P", "Q", "R", "S", "T", "U", "V", "W", "X", "Y", "Z" >>
    IN  IF \E i \in 1..26 : small[i] = char
        THEN capital[CHOOSE i \in 1..26 : small[i] = char] ELSE char

\* str.splitlines(): the lines between the breaks; no line follows a final break
RECURSIVE splitlinesFrom(_, _, _)
splitlinesFrom(text, break, line) ==
    IF text = <<>> THEN (IF line = <<>> THEN <<>> ELSE << line >>)
    ELSE IF Head(text) = break THEN << line >> \o splitlinesFrom(Tail(text), break, <<>>)
    ELSE splitlinesFrom(Tail(text), break, Append(line, Head(text)))

splitlines(text, break) == splitlinesFrom(text, break, <<>>)

\* break.join(lines)
RECURSIVE joinLines(_, _)
joinLines(lines, break) ==
    IF lines = <<>> THEN <<>>
    ELSE IF Len(lines) = 1 THEN lines[1]
    ELSE lines[1] \o << break >> \o joinLines(Tail(lines), break)

\* lines 1239 and 1275: the lines joined by the line break
joined(lines, break) ==
    IF lines.exc # "none" THEN lines ELSE Returned(joinLines(lines.val, break))

\* lines 1233-1237: every character of every line through ascii_chars
asciiLinesOf(brailleLines) ==
    IF \A i \in DOMAIN brailleLines : \A j \in DOMAIN brailleLines[i] :
           brailleLines[i][j] \in DOMAIN ascii_chars
    THEN Returned([ i \in DOMAIN brailleLines |->
                      [ j \in DOMAIN brailleLines[i] |-> ascii_chars[brailleLines[i][j]] ] ])
    ELSE Raised("KeyError")

brailleUnicodeToBrailleAscii(brailleUnicode) ==
    joined(asciiLinesOf(splitlines(brailleUnicode, newline)), "\n")

\* lines 1269-1273: every character of every line, upper-cased, through braille_chars
brailleLinesOf(asciiLines) ==
    IF \A i \in DOMAIN asciiLines : \A j \in DOMAIN asciiLines[i] :
           upper(asciiLines[i][j]) \in DOMAIN braille_chars
    THEN Returned([ i \in DOMAIN asciiLines |->
                      [ j \in DOMAIN asciiLines[i] |->
                          braille_chars[upper(asciiLines[i][j])] ] ])
    ELSE Raised("KeyError")

brailleAsciiToBrailleUnicode(brailleAscii) ==
    joined(brailleLinesOf(splitlines(brailleAscii, "\n")), newline)

-----------------------------------------------------------------------------
(* Elements                                                                 *)

\* a music21 Note: flags is the set of the attributes of falseKeywords that the
\* note carries with a true value; fingering is << >> for a note with no
\* fingering attribute and << s >> for a note whose fingering is s
Note(step, octave, acc, type) ==
    [ kind |-> "Note", step |-> step, octave |-> octave, acc |-> acc,
      accDisplay |-> TRUE, type |-> type, dots |-> 0, grace |-> FALSE,
      triplet |-> FALSE, articulations |-> <<>>, tie |-> "none",
      flags |-> {}, fingering |-> << >> ]

Rest(type, dots) == [kind |-> "Rest", type |-> type, dots |-> dots]
Chord(pitches, type) == [kind |-> "Chord", pitches |-> pitches, type |-> type, dots |-> 0]
Barline(style) == [kind |-> "Barline", style |-> style]
Clef(class, sign, line) == [kind |-> "Clef", class |-> class, sign |-> sign, line |-> line]
Dynamic(value) == [kind |-> "Dynamic", value |-> value]
TextExpression(content) == [kind |-> "TextExpression", content |-> content]
MetronomeMark(number, type) == [kind |-> "MetronomeMark", number |-> number, type |-> type]
KeySignature(sharps) == [kind |-> "KeySignature", sharps |-> sharps]
\* the numerator is given as str(numerator), the text as a sequence of characters
TimeSignature(symbol, numerator, denominator) ==
    [kind |-> "TimeSignature", symbol |-> symbol, numerator |-> numerator,
     denominator |-> denominator]
TempoText(text) == [kind |-> "TempoText", text |-> text]


pitchOf(n) == Pitch(n.step, n.octave, n.acc)

-----------------------------------------------------------------------------
(* noteToBraille (lines 446-610), in the order of its sections; bs is the   *)
(* dict beamStatus as the section reads it                                  *)

falseKeywords ==
    { "beginLongBracketSlur", "endLongBracketSlur", "beginLongDoubleSlur",
      "endLongDoubleSlur", "shortSlur", "beamStart", "beamContinue" }

\* lines 450-454: getattr(music21Note, keyword), False on AttributeError
noteFlags(n) == [ keyword \in falseKeywords |-> keyword \in n.flags ]

\* lines 461-472
openingSlurs(bs) ==
    (IF bs.beginLongBracketSlur THEN symbols.opening_bracket_slur
     ELSE IF bs.beginLongDoubleSlur THEN symbols.opening_double_slur
     ELSE <<>>)
    \o (IF bs.endLongBracketSlur /\ bs.beginLongBracketSlur
        THEN symbols.closing_bracket_slur ELSE <<>>)

\* lines 476-480
tripletMark(n, bs) == IF n.triplet /\ bs.beamStart THEN symbols.triplet ELSE <<>>

\* afterTriplet leaving beamStatus as it is
afterTripletKeepingFlags(n, bs) == bs

\* lines 481-482: beamStatus after the triplet section
afterTriplet(n, bs) ==
    IF n.triplet /\ ~bs.beamStart /\ bs.beamContinue
    THEN [bs EXCEPT !.beamContinue = FALSE]
    ELSE bs

\* rank of an articulation name in the lexicographic order of the names
nameRank(name) ==
    CASE name = "accent" -> 1 [] name = "pizzicato" -> 2 [] name = "staccatissimo" -> 3
      [] name = "staccato" -> 4 [] name = "tenuto" -> 5

isStaccato(name) == name = "staccato" \/ name = "staccatissimo"

\* lines 491-496
RECURSIVE staccatoMarks(_)
staccatoMarks(as) ==
    IF as = <<>> THEN <<>>
    ELSE (IF isStaccato(Head(as)) THEN beforeNoteExpr[Head(as)] ELSE <<>>)
         \o staccatoMarks(Tail(as))

\* lines 499-509: a name with no entry is skipped with a warning
RECURSIVE otherMarks(_)
otherMarks(as) ==
    IF as = <<>> THEN <<>>
    ELSE (IF ~isStaccato(Head(as)) /\ Head(as) \in DOMAIN beforeNoteExpr
          THEN beforeNoteExpr[Head(as)] ELSE <<>>)
         \o otherMarks(Tail(as))

\* lines 487-509
articulationMarks(n) ==
    staccatoMarks(n.articulations) \o otherMarks(sortedBy(n.articulations,
                        [ i \in 1..Len(n.articulations) |-> nameRank(n.articulations[i]) ]))

\* line 498: the list of the note is sorted where it is, so the note leaves
\* noteToBraille with its articulations in the order of their names
noteAfter(n) ==
    [ n EXCEPT !.articulations =
        sortedBy(@, [ i \in 1..Len(@) |-> nameRank(@[i]) ]) ]

\* lines 512-521
accidentalMark(n) ==
    IF n.acc # "none" /\ n.accDisplay /\ n.acc \in DOMAIN accidentals
    THEN accidentals[n.acc] ELSE <<>>

\* octaveMark putting the placeholder where the octave has no entry
octaveMarkOrPlaceholder(n, showOctave) ==
    IF ~showOctave THEN <<>>
    ELSE IF n.octave \in DOMAIN octaves THEN octaves[n.octave]
    ELSE symbols.basic_exception

\* lines 525-532
octaveMark(n, showOctave) ==
    IF showOctave /\ n.octave \in DOMAIN octaves THEN octaves[n.octave] ELSE <<>>

\* lines 546-559: the duration type the glyph is looked up by
glyphType(n, bs) ==
    IF n.grace THEN "eighth" ELSE IF bs.beamContinue THEN "eighth" ELSE n.type

\* lines 536-570: whether the step and the duration type have a glyph
hasGlyph(n, bs) ==
    /\ n.step \in StepSet
    /\ glyphType(n, bs) \in DOMAIN pitchNameToNotes(n.step)

\* lines 548-565: the glyph, and the dots of a note that is no grace note
nameWithDuration(n, bs) ==
    pitchNameToNotes(n.step)[glyphType(n, bs)]
    \o (IF n.grace THEN <<>> ELSE Repeat(symbols.dot, n.dots))

\* lines 574-582: reading the fingering of a note that has none raises
\* AttributeError, which is passed over; BrailleBasicException is warned about
fingerMark(n, upperFirstInFingering) ==
    IF n.fingering = << >> THEN <<>>
    ELSE Catch(transcribeNoteFingering(n.fingering[1], upperFirstInFingering),
               "BrailleBasicException", <<>>).val

\* closingSlurs with the bracket close taking precedence over the double close
closingSlursBracketFirst(bs) ==
    (IF bs.shortSlur THEN symbols.opening_single_slur ELSE <<>>)
    \o (IF ~(bs.endLongBracketSlur /\ bs.beginLongBracketSlur)
        THEN (IF bs.endLongBracketSlur THEN symbols.closing_bracket_slur
              ELSE IF bs.endLongDoubleSlur THEN symbols.closing_double_slur
              ELSE <<>>)
        ELSE <<>>)

\* lines 589-601
closingSlurs(bs) ==
    (IF bs.shortSlur THEN symbols.opening_single_slur ELSE <<>>)
    \o (IF ~(bs.endLongBracketSlur /\ bs.beginLongBracketSlur)
        THEN (IF bs.endLongDoubleSlur THEN symbols.closing_double_slur
              ELSE IF bs.endLongBracketSlur THEN symbols.closing_bracket_slur
              ELSE <<>>)
        ELSE <<>>)

\* lines 606-608
tieMark(n) == IF n.tie # "none" /\ n.tie # "stop" THEN symbols.tie ELSE <<>>

\* noteSections with the articulations put before the triplet mark
noteSectionsArticulationsFirst(n, showOctave, upperFirstInFingering, bs1, bs2) ==
    IF ~hasGlyph(n, bs2) THEN symbols.basic_exception
    ELSE openingSlurs(bs1) \o articulationMarks(n) \o tripletMark(n, bs1)
         \o accidentalMark(n) \o octaveMark(n, showOctave)
         \o nameWithDuration(n, bs2) \o fingerMark(n, upperFirstInFingering)
         \o closingSlurs(bs2) \o tieMark(n)

\* lines 456-610 with beamStatus = bs1 up to the triplet section and bs2 after it
noteSections(n, showOctave, upperFirstInFingering, bs1, bs2) ==
    IF ~hasGlyph(n, bs2) THEN symbols.basic_exception
    ELSE openingSlurs(bs1) \o tripletMark(n, bs1) \o articulationMarks(n)
         \o accidentalMark(n) \o octaveMark(n, showOctave)
         \o nameWithDuration(n, bs2) \o fingerMark(n, upperFirstInFingering)
         \o closingSlurs(bs2) \o tieMark(n)

\* noteToBraille when no other call touches beamStatus between its sections:
\* beamStatus is written from the note (lines 450-454), then read
noteToBraille(music21Note, showOctave, upperFirstInFingering) ==
    noteSections(music21Note, showOctave, upperFirstInFingering, noteFlags(music21Note),
                 afterTriplet(music21Note, noteFlags(music21Note)))

-----------------------------------------------------------------------------
(* The other element encoders                                               *)

\* lines 84-92
barlineToBraille(music21Barline) ==
    IF music21Barline.style \in DOMAIN barlines
    THEN barlines[music21Barline.style]
    ELSE symbols.basic_exception

\* lines 635-650
restToBraille(music21Rest) ==
    IF music21Rest.type \in DOMAIN rests
    THEN rests[music21Rest.type] \o Repeat(symbols.dot, music21Rest.dots)
    ELSE symbols.basic_exception

\* lines 234-253
clefToBraille(music21Clef, changeSuffix) ==
    IF music21Clef.class = "NoClef" THEN <<>>
    ELSE IF music21Clef.sign \in DOMAIN clefs
            /\ music21Clef.line \in DOMAIN clefs[music21Clef.sign]
         THEN clefs["prefix"] \o clefs[music21Clef.sign][music21Clef.line]
              \o (IF music21Clef.class \in {"TrebleClef", "BassClef"}
                  THEN clefs["suffix"][changeSuffix] ELSE clefs["suffix"][FALSE])
         ELSE symbols.basic_exception

\* lines 272-286: only BrailleBasicException is caught
dynamicToBraille(music21Dynamic, precedeByWordSign) ==
    Catch(Both(Returned(IF precedeByWordSign THEN symbols.word ELSE <<>>),
               wordToBraille(music21Dynamic.value, TRUE)),
          "BrailleBasicException", symbols.basic_exception)

\* lines 734-737: each word but the last with a space after it, then the last
RECURSIVE wordsToBraille(_)
wordsToBraille(allExpr) ==
    IF allExpr = <<>> THEN Raised("IndexError")
    ELSE Both(wordToBraille(Head(allExpr), TRUE),
              IF Len(allExpr) = 1 THEN Returned(<<>>)
              ELSE Both(Returned(symbols.space), wordsToBraille(Tail(allExpr))))

\* lines 721-739 on the words of the content
wordsOfExpression(allExpr, precedeByWordSign) ==
    Both(Returned(IF precedeByWordSign THEN symbols.word ELSE <<>>),
         IF Len(allExpr) = 1 THEN wordToBraille(allExpr[1], TRUE)
         ELSE Both(wordsToBraille(allExpr), Returned(symbols.word)))

\* lines 712-746
textExpressionToBraille(music21TextExpression, precedeByWordSign) ==
    IF music21TextExpression.content \in DOMAIN textExpressions
    THEN Returned(textExpressions[music21TextExpression.content])
    ELSE Catch(wordsOfExpression(split(music21TextExpression.content), precedeByWordSign),
               "BrailleBasicException", symbols.basic_exception)

\* line 393: note.Note('C4', quarterLength = referent.quarterLength)
metroNote(music21MetronomeMark) == Note("C", 4, "none", music21MetronomeMark.type)

\* lines 390-409: what noteToBraille returned is appended as it is
metronomeMarkToBraille(music21MetronomeMark) ==
    Catch(Both(Returned(noteToBraille(metroNote(music21MetronomeMark), FALSE, TRUE)
                        \o symbols.metronome),
               numberToBraille(music21MetronomeMark.number, TRUE)),
          "BrailleBasicException", symbols.basic_exception)

-----------------------------------------------------------------------------
(* chordToBraille (lines 138-178)                                           *)

\* lines 139-144
allPitchesOf(music21Chord, descending) ==
    IF descending THEN Reverse(sortedPitches(music21Chord.pitches))
    ELSE sortedPitches(music21Chord.pitches)

\* pitchInChord with the octave mark before every folded interval
pitchInChordAlwaysOctave(currentPitch, intervalDistance, octaveNeeded) ==
    IF intervalDistance > 8
    THEN Both(lookup(octaves, currentPitch.octave),
              lookup(intervals, (intervalDistance % 8) + 1))
    ELSE lookup(intervals, intervalDistance)

\* lines 161-175 for one pitch: octaveNeeded is the test of line 163 or of line 171
pitchInChord(currentPitch, intervalDistance, octaveNeeded) ==
    IF intervalDistance > 8
    THEN Both(IF octaveNeeded THEN lookup(octaves, currentPitch.octave) ELSE Returned(<<>>),
              lookup(intervals, (intervalDistance % 8) + 1))
    ELSE lookup(intervals, intervalDistance)

\* one pass of the loop of lines 158-177, for allPitches[i], i >= 2
chordPitch(allPitches, i) ==
    pitchInChord(allPitches[i], genericUndirected(allPitches[1], allPitches[i]),
                 i = 2 \/ genericUndirected(allPitches[i - 1], allPitches[i]) >= 8)

RECURSIVE chordPitches(_, _)
chordPitches(allPitches, i) ==
    IF i > Len(allPitches) THEN Returned(<<>>)
    ELSE Both(chordPitch(allPitches, i), chordPitches(allPitches, i + 1))

\* lines 147-148: note.Note(basePitch, quarterLength = music21Chord.quarterLength)
initNoteOf(music21Chord, basePitch) ==
    [ Note(basePitch.step, basePitch.octave, basePitch.acc, music21Chord.type)
        EXCEPT !.dots = music21Chord.dots ]

\* lines 150-178 on the base note's string and the strings of the other pitches
chordTrans(brailleNote, others) ==
    IF brailleNote = symbols.basic_exception THEN Returned(symbols.basic_exception)
    ELSE Both(Returned(brailleNote), others)

chordToBraille(music21Chord, descending, showOctave) ==
    chordTrans(noteToBraille(initNoteOf(music21Chord,
                                        allPitchesOf(music21Chord, descending)[1]),
                             showOctave, TRUE),
               chordPitches(allPitchesOf(music21Chord, descending), 2))

-----------------------------------------------------------------------------
(* showOctaveWithNote (lines 841-851); a note is given by its pitch          *)

\* octaveShownAt without the rule for fourths and fifths
octaveShownAtSixthOnly(g, previous, current) == g >= 6

\* lines 844-851 on the generic undirected interval g
octaveShownAt(g, previous, current) ==
    LET isSixthOrGreater == g >= 6
        isFourthOrFifth == g = 4 \/ g = 5
        sameOctaveAsPrevious == previous.octave = current.octave
    IN isSixthOrGreater \/ (isFourthOrFifth /\ ~sameOctaveAsPrevious)

showOctaveWithNote(previous, current) ==
    IF previous = None THEN TRUE
    ELSE octaveShownAt(genericUndirected(previous, current), previous, current)

-----------------------------------------------------------------------------
(* keySigToBraille (lines 330-374); outgoingKeySig is None when no outgoing   *)
(* key signature is given                                                   *)

\* the sign of a nonzero count: outgoingSharps / absOutgoing
signOf(n) == IF n < 0 THEN -1 ELSE 1

\* naturalsIndex cancelling the whole outgoing signature in every case
naturalsIndexFull(incomingSharps, outgoingSharps) == Abs(outgoingSharps)

\* lines 355-366: the index into naturals, or -1 when no naturals are added
naturalsIndex(incomingSharps, outgoingSharps) ==
    IF \/ incomingSharps = 0
       \/ outgoingSharps = 0
       \/ signOf(outgoingSharps) # signOf(incomingSharps)
    THEN Abs(outgoingSharps)
    ELSE IF Abs(outgoingSharps) >= Abs(incomingSharps)
         THEN Abs(outgoingSharps - incomingSharps)
         ELSE -1

\* withNaturals answering a missing entry of naturals with the placeholder
withNaturalsOrPlaceholder(n, ks_braille) ==
    IF n = -1 THEN ks_braille
    ELSE IF n \notin DOMAIN naturals THEN symbols.basic_exception
    ELSE naturals[n] \o ks_braille

\* lines 355-371 once the index is known: KeyError leaves the naturals out
withNaturals(n, ks_braille) ==
    IF n = -1 THEN ks_braille
    ELSE IF n \notin DOMAIN naturals THEN ks_braille
    ELSE naturals[n] \o ks_braille

keySigToBraille(music21KeySignature, outgoingKeySig) ==
    IF music21KeySignature.sharps \notin DOMAIN keySignatures
    THEN symbols.basic_exception
    ELSE IF outgoingKeySig = None THEN keySignatures[music21KeySignature.sharps]
    ELSE withNaturals(naturalsIndex(music21KeySignature.sharps, outgoingKeySig.sharps),
                      keySignatures[music21KeySignature.sharps])

-----------------------------------------------------------------------------
(* Headings: tempoTextToBraille (lines 667-699), timeSigToBraille (lines     *)
(* 763-783), transcribeSignatures (lines 1186-1197) and transcribeHeading    *)
(* (lines 887-945)                                                          *)

\* lines 676-682: the word goes to phraseTrans, a list of strings, after a
\* line break when the length of the list, the length of the word and 1 exceed
\* the width
placeWord(phraseTrans, brailleWord, width) ==
    IF Len(phraseTrans) + Len(brailleWord) + 1 <= width
    THEN phraseTrans \o << brailleWord, symbols.space >>
    ELSE phraseTrans \o << << newline >>, brailleWord, symbols.space >>

\* lines 674-682
RECURSIVE phraseWords(_, _, _)
phraseWords(allWords, phraseTrans, width) ==
    IF allWords = <<>> THEN Returned(phraseTrans)
    ELSE IF wordToBraille(Head(allWords), FALSE).exc # "none"
         THEN wordToBraille(Head(allWords), FALSE)
    ELSE phraseWords(Tail(allWords),
                     placeWord(phraseTrans, wordToBraille(Head(allWords), FALSE).val, width),
                     width)

\* lines 671-691: every phrase without the last entry of its list, then a
\* comma and a line break, the last comma and line break taken off
RECURSIVE braillePhrases(_, _)
braillePhrases(allPhrases, width) ==
    LET phraseTrans == phraseWords(split(Head(allPhrases)), <<>>, width)
    IN  IF phraseTrans.exc # "none" THEN phraseTrans
        ELSE Both(Returned(Join(SubSeq(phraseTrans.val, 1, Len(phraseTrans.val) - 1))),
                  IF Len(allPhrases) = 1 THEN Returned(<<>>)
                  ELSE Both(Returned(alphabet[","] \o << newline >>),
                            braillePhrases(Tail(allPhrases), width)))

tempoTextToBraille(music21TempoText, maxLineLength) ==
    Catch(Both(braillePhrases(splitOn(music21TempoText.text, ","), maxLineLength - 6),
               Returned(alphabet["."])),
          "BrailleBasicException", symbols.basic_exception)

\* lookup.beatUnits
beatUnits ==
    [ d \in {4, 8} |-> IF d = 4 THEN << Cell({2,5,6}) >> ELSE << Cell({2,3,6}) >> ]

timeSigToBraille(music21TimeSignature) ==
    IF music21TimeSignature.symbol \in DOMAIN symbols
    THEN Returned(symbols[music21TimeSignature.symbol])
    ELSE Catch(Catch(Both(numberToBraille(music21TimeSignature.numerator, TRUE),
                          lookup(beatUnits, music21TimeSignature.denominator)),
                     "BrailleBasicException", symbols.basic_exception),
               "KeyError", symbols.basic_exception)

transcribeSignatures(music21KeySignature, music21TimeSignature, outgoingKeySig) ==
    IF /\ music21TimeSignature = None
       /\ \/ music21KeySignature = None
          \/ (music21KeySignature.sharps = 0 /\ outgoingKeySig = None)
    THEN Raised("BrailleBasicException")
    ELSE Both(IF music21KeySignature # None
              THEN Returned(keySigToBraille(music21KeySignature, outgoingKeySig))
              ELSE Returned(<<>>),
              IF music21TimeSignature # None THEN timeSigToBraille(music21TimeSignature)
              ELSE Returned(<<>>))

\* str.ljust in the place of str.center
leftJustified(s, width, fillchar) == s \o Repeat(fillchar, width - Len(s))

\* str.center(width, fillchar): of an odd number of fill characters the odd
\* one goes to the left when the width is odd, else to the right
center(s, width, fillchar) ==
    LET marg == width - Len(s)
        left == marg \div 2 + (IF marg % 2 = 1 /\ width % 2 = 1 THEN 1 ELSE 0)
    IN  IF marg <= 0 THEN s
        ELSE Repeat(fillchar, left) \o s \o Repeat(fillchar, marg - left)

\* lines 904-911 and 938-945: the lines on one centred line, joined by joiner,
\* if fits, else every line centred
headingOf(headingTrans, fits, joiner, maxLineLength) ==
    IF fits
    THEN center(Join([ i \in DOMAIN headingTrans |->
                         (IF i = 1 THEN <<>> ELSE joiner) \o headingTrans[i] ]),
                maxLineLength, symbols.space)
    ELSE joinLines([ i \in DOMAIN headingTrans |->
                       center(headingTrans[i], maxLineLength, symbols.space) ], newline)

\* lines 913-928: otherTransStr, or the exception of line 926
otherTransOf(music21MetronomeMark, keyAndTimeSig, noTempoText) ==
    IF music21MetronomeMark = None
    THEN (IF keyAndTimeSig.exc = "none" \/ noTempoText THEN keyAndTimeSig
          ELSE Returned(<<>>))
    ELSE Both(metronomeMarkToBraille(music21MetronomeMark),
              IF keyAndTimeSig.exc = "none"
              THEN Returned(symbols.space \o keyAndTimeSig.val) ELSE Returned(<<>>))

\* lines 930-945
headingWith(tempoTextTrans, otherTransStr, maxLineLength) ==
    IF otherTransStr.exc # "none" THEN otherTransStr
    ELSE IF tempoTextTrans = None
    THEN Returned(center(otherTransStr.val, maxLineLength, symbols.space))
    ELSE Returned(headingOf(Append(splitlines(tempoTextTrans, newline), otherTransStr.val),
                            Len(tempoTextTrans) + Len(otherTransStr.val) + 1
                                <= maxLineLength - 6,
                            symbols.space, maxLineLength))

\* line 895 calls tempoTextToBraille with its default maxLineLength, 40
tempoTextTransOf(music21TempoText) ==
    IF music21TempoText = None THEN None ELSE tempoTextToBraille(music21TempoText, 40).val

transcribeHeading(music21KeySignature, music21TimeSignature, music21TempoText, music21MetronomeMark, maxLineLength) ==
    IF /\ music21KeySignature = None /\ music21TimeSignature = None
       /\ music21TempoText = None /\ music21MetronomeMark = None
    THEN Raised("BrailleBasicException")
    ELSE IF /\ music21KeySignature = None /\ music21TimeSignature = None
            /\ music21MetronomeMark = None
    THEN Returned(headingOf(splitlines(tempoTextTransOf(music21TempoText), newline),
                            Len(tempoTextTransOf(music21TempoText)) <= maxLineLength - 6,
                            <<>>, maxLineLength))
    ELSE headingWith(tempoTextTransOf(music21TempoText),
                     otherTransOf(music21MetronomeMark,
                                  transcribeSignatures(music21KeySignature,
                                                       music21TimeSignature, None),
                                  music21TempoText = None),
                     maxLineLength)

-----------------------------------------------------------------------------
(* transcribeNoteGrouping (lines 1058-1164)                                 *)

hasattr(c, name) == name \in DOMAIN c

\* the handler without the assignment of line 1162
defaultsWithoutClefSigns == [ descendingChords |-> TRUE, upperFirstInNoteFingering |-> TRUE ]

defaultConfig ==
    [ descendingChords |-> TRUE, showClefSigns |-> FALSE,
      upperFirstInNoteFingering |-> TRUE ]

\* what the if/elif chain of lines 1068-1133 does with one element: the string
\* it appends, whether the element is a Note or a Chord and the showOctave it
\* was encoded with, and previousNote and showLeadingOctave as the chain leaves them
NoOutput(prevNote, slo) ==
    [ exc |-> "none", appended |-> FALSE, out |-> <<>>, pitched |-> FALSE,
      doShowOctave |-> FALSE, previousNote |-> prevNote, showLeadingOctave |-> slo ]

Failed(e, prevNote, slo) == [ NoOutput(prevNote, slo) EXCEPT !.exc = e ]

\* trans.append(out), previousNote and showLeadingOctave left as they are
appendOnly(out, prevNote, slo) ==
    [ NoOutput(prevNote, slo) EXCEPT !.appended = TRUE, !.out = out ]

\* trans.append of a Note's or a Chord's string; previousNote = currentNote
appendPitched(r, doShowOctave, currentNote, prevNote, slo) ==
    IF r.exc # "none" THEN Failed(r.exc, prevNote, slo)
    ELSE [ NoOutput(currentNote, slo) EXCEPT !.appended = TRUE, !.out = r.val,
              !.pitched = TRUE, !.doShowOctave = doShowOctave ]

\* appendAndReset leaving previousNote and showLeadingOctave as they are
appendWithoutReset(r, prevNote, slo) ==
    IF r.exc # "none" THEN Failed(r.exc, prevNote, slo)
    ELSE [ NoOutput(prevNote, slo) EXCEPT !.appended = TRUE, !.out = r.val ]

\* trans.append, then previousNote = None and showLeadingOctave = True
\* (lines 1111-1113, 1118-1120 and 1129-1131)
appendAndReset(r, prevNote, slo) ==
    IF r.exc # "none" THEN Failed(r.exc, prevNote, slo)
    ELSE [ NoOutput(None, TRUE) EXCEPT !.appended = TRUE, !.out = r.val ]

\* chordNote taking the lowest note whatever descendingChords says
chordNoteLowest(music21Chord, descending) == sortedPitches(music21Chord.pitches)[1]

\* lines 1087-1096: the note of the chord the octave decision is made for
chordNote(music21Chord, descending) ==
    LET allNotes == sortedPitches(music21Chord.pitches)
    IN IF descending THEN allNotes[Len(allNotes)] ELSE allNotes[1]

\* lines 1070-1073 and 1097-1100
octaveDecision(prevNote, currentNote, slo) ==
    IF prevNote = None THEN slo ELSE showOctaveWithNote(prevNote, currentNote)

\* lines 1097-1106 once currentNote is chosen
chordInGrouping(e, c, currentNote, prevNote, slo) ==
    appendPitched(chordToBraille(e, c.descendingChords,
                                 octaveDecision(prevNote, currentNote, slo)),
                  octaveDecision(prevNote, currentNote, slo), currentNote, prevNote, slo)

\* the if/elif chain of lines 1068-1133
encodeElement(e, c, prevNote, slo) ==
    CASE e.kind = "Note" ->
           appendPitched(Returned(noteToBraille(e, octaveDecision(prevNote, pitchOf(e), slo),
                                                c.upperFirstInNoteFingering)),
                         octaveDecision(prevNote, pitchOf(e), slo), pitchOf(e), prevNote, slo)
      [] e.kind = "Rest" -> appendOnly(restToBraille(e), prevNote, slo)
      [] e.kind = "Chord" ->
           IF ~hasattr(c, "descendingChords") THEN Failed("AttributeError", prevNote, slo)
           ELSE chordInGrouping(e, c, chordNote(e, c.descendingChords), prevNote, slo)
      [] e.kind = "Dynamic" -> appendAndReset(dynamicToBraille(e, TRUE), prevNote, slo)
      [] e.kind = "TextExpression" ->
           appendAndReset(textExpressionToBraille(e, TRUE), prevNote, slo)
      [] e.kind = "Barline" -> appendOnly(barlineToBraille(e), prevNote, slo)
      [] e.kind = "Clef" ->
           IF ~hasattr(c, "showClefSigns") THEN Failed("AttributeError", prevNote, slo)
           ELSE IF c.showClefSigns
                THEN appendAndReset(Returned(clefToBraille(e, FALSE)), prevNote, slo)
                ELSE NoOutput(prevNote, slo)
      [] OTHER -> NoOutput(prevNote, slo)

\* the element as a pass of the loop leaves it: a Note goes through
\* noteToBraille once line 1067 has read upperFirstInNoteFingering; a Chord
\* is encoded through a new Note (line 148) and is left as it is
elementAfter(e, c) ==
    IF e.kind = "Note" /\ hasattr(c, "upperFirstInNoteFingering") THEN noteAfter(e) ELSE e

\* the test of lines 1136-1140
afterClefOrDynamic(prevElem, e, c) ==
    \/ (c.showClefSigns /\ prevElem.kind = "Clef")
    \/ (prevElem.kind = "Dynamic" /\ ~(e.kind = "Dynamic")
                                  /\ ~(e.kind = "TextExpression"))

\* the test of lines 1147-1149
afterTextExpression(prevElem, e) ==
    /\ prevElem.kind = "TextExpression"
    /\ ~(e.kind = "Dynamic")
    /\ ~(e.kind = "TextExpression")

\* dot3Applies without the test for the period that ends an abbreviation
dot3AppliesAfterAnyText(prevElem, e, c) ==
    afterClefOrDynamic(prevElem, e, c) \/ afterTextExpression(prevElem, e)

\* lines 1136-1150: whether the first cell of trans[-1] is looked at
dot3Applies(prevElem, e, c) ==
    IF afterClefOrDynamic(prevElem, e, c) THEN TRUE
    ELSE IF afterTextExpression(prevElem, e)
         THEN ~(prevElem.content[Len(prevElem.content)] = ".")
         ELSE FALSE

\* needsDot3 looking at the right dot of the top row only
needsDot3TopRight(cell) == binary_dots(cell)[1] \in {"01", "11"}

\* the loop over binary_dots[trans[-1][0]] of lines 1141-1142 and 1152-1153
needsDot3(cell) == \E i \in 1..3 : binary_dots(cell)[i] \in {"10", "11"}

\* trans.insert(-1, symbols['dot'])
insertBeforeLast(list, s) ==
    SubSeq(list, 1, Len(list) - 1) \o << s >> \o << list[Len(list)] >>

\* lines 1135-1157 on the list trans as the chain left it
dot3(prevElem, e, c, list) ==
    LET unchanged == [ exc |-> "none", checked |-> FALSE, inserted |-> FALSE,
                       trans |-> list ]
    IN IF prevElem = None THEN unchanged
       ELSE IF ~hasattr(c, "showClefSigns")
            THEN [ unchanged EXCEPT !.exc = "AttributeError" ]
       ELSE IF ~dot3Applies(prevElem, e, c) THEN unchanged
       ELSE IF list = <<>> \/ list[Len(list)] = <<>>
            THEN [ unchanged EXCEPT !.exc = "IndexError", !.checked = TRUE ]
       ELSE IF needsDot3(list[Len(list)][1])
            THEN [ unchanged EXCEPT !.checked = TRUE, !.inserted = TRUE,
                      !.trans = insertBeforeLast(list, symbols.dot) ]
       ELSE [ unchanged EXCEPT !.checked = TRUE ]

\* a pass of the loop as one record: what the chain did (enc) and what the
\* dot-3 block did with the list (d)
passOf(enc, d) ==
    [ exc |-> d.exc, enc |-> enc, checked |-> d.checked, inserted |-> d.inserted,
      trans |-> d.trans ]

\* lines 1135-1157 after the chain's outcome enc
afterChain(enc, prevElem, e, c, list) ==
    IF enc.exc # "none"
    THEN [ exc |-> enc.exc, enc |-> enc, checked |-> FALSE, inserted |-> FALSE,
           trans |-> list ]
    ELSE passOf(enc, dot3(prevElem, e, c,
                          IF enc.appended THEN Append(list, enc.out) ELSE list))

\* one pass of the for loop (lines 1066-1158) on element e
loopBody(e, c, list, prevNote, prevElem, slo) ==
    IF ~hasattr(c, "upperFirstInNoteFingering")
    THEN [ exc |-> "AttributeError", enc |-> NoOutput(prevNote, slo),
           checked |-> FALSE, inserted |-> FALSE, trans |-> list ]
    ELSE afterChain(encodeElement(e, c, prevNote, slo), prevElem, e, c, list)

\* lines 1062-1159 as a function of the arguments, from element i on: the
\* string returned, or the exception that leaves the try block
RECURSIVE loopFrom(_, _, _, _, _, _, _)
afterPass(b, g, i, c) ==
    IF b.exc # "none" THEN Raised(b.exc)
    ELSE loopFrom(g, i + 1, c, b.trans, b.enc.previousNote, g[i], b.enc.showLeadingOctave)
loopFrom(g, i, c, list, prevNote, prevElem, slo) ==
    IF i > Len(g) THEN Returned(Join(list))
    ELSE afterPass(loopBody(g[i], c, list, prevNote, prevElem, slo), g, i, c)

\* beamStatus as a call of noteToBraille on note n leaves it (lines 450-482)
beamWritten(n) == afterTriplet(n, noteFlags(n))

\* beamStatus after a pass of the loop on element e
beamAfter(e, c, bs) ==
    IF ~hasattr(c, "upperFirstInNoteFingering") THEN bs
    ELSE IF e.kind = "Note" THEN beamWritten(e)
    ELSE IF e.kind = "Chord" /\ hasattr(c, "descendingChords")
         THEN beamWritten(initNoteOf(e, allPitchesOf(e, c.descendingChords)[1]))
    ELSE bs

-----------------------------------------------------------------------------
(* The inputs of the model                                                  *)

\* groupings of up to MaxLen elements of any kind, and of LongLen core elements
MaxLen == 2
LongLen == 3

NoteE5 == Note("E", 5, "none", "quarter")
NoteC4 == Note("C", 4, "none", "quarter")
RestQuarter == Rest("quarter", 0)
ChordCEG == Chord(<< Pitch("C", 4, "none"), Pitch("E", 4, "none"), Pitch("G", 4, "none") >>,
                  "whole")
\* C4 and D6: generic interval 16
ChordC4D6 == Chord(<< Pitch("C", 4, "none"), Pitch("D", 6, "none") >>, "whole")
\* C4, D5, E5: a ninth and a tenth from C4, a second apart
ChordC4D5E5 == Chord(<< Pitch("C", 4, "none"), Pitch("D", 5, "none"), Pitch("E", 5, "none") >>,
                     "whole")
\* G2, E3, E4: a sixth and a thirteenth from G2, an octave apart
ChordG2E3E4 == Chord(<< Pitch("G", 2, "none"), Pitch("E", 3, "none"), Pitch("E", 4, "none") >>,
                     "whole")
\* a chord whose duration type has no glyph
ChordComplex == Chord(<< Pitch("E", 4, "none"), Pitch("C", 4, "none") >>, "complex")
DynamicF == Dynamic(<< "f" >>)
DynamicUpper == Dynamic(<< "E_ACUTE" >>)
ExpressionDe == TextExpression(<< "d", "e" >>)
ExpressionAbbrev == TextExpression(<< "d", "." >>)
BarlineRegular == Barline("regular")
TrebleClef == Clef("TrebleClef", "G", 2)
NoClef == Clef("NoClef", "none", 0)
Unsupported == KeySignature(2)

Elements ==
    { NoteE5, NoteC4, RestQuarter, ChordCEG, ChordC4D6, ChordComplex, DynamicF, DynamicUpper,
      ExpressionDe, ExpressionAbbrev, BarlineRegular, TrebleClef, NoClef, Unsupported }

CoreElements == { NoteE5, NoteC4, RestQuarter, DynamicF, TrebleClef }

\* a note whose articulations are not in the order of their names
NoteMarked == [ NoteC4 EXCEPT !.articulations = << "tenuto", "staccato", "accent" >> ]

Groupings ==
    UNION { [1..n -> Elements] : n \in 0..MaxLen } \cup [1..LongLen -> CoreElements]
    \cup { << NoteMarked >>, << NoteMarked, TrebleClef >>, << DynamicF, NoteMarked >> }


ConfigNames == {"descendingChords", "showClefSigns", "upperFirstInNoteFingering"}

\* a grouping carries any subset of the three attributes, with any values
Configs == UNION { [names -> BOOLEAN] : names \in SUBSET ConfigNames }

\* pitches of the octaves 3 .. 3 + OctaveSpan
OctaveSpan == 2
Pitches == { Pitch(s, o, "none") : s \in StepSet, o \in 3..(3 + OctaveSpan) }

\* sharps counts of key signatures: one more than the tables hold
MaxSharps == 8
SharpsCounts == (0 - MaxSharps)..MaxSharps

\* words of up to MaxWord characters
MaxWord == 2
Characters == { "f", "p", ".", "F", "e_acute", "E_ACUTE" }
Words == UNION { [1..n -> Characters] : n \in 0..MaxWord }

\* contents of text expressions: a word, or two one-letter words and a blank
Contents == Words \cup { << a, " ", b >> : a, b \in { "f", ".", "e_acute" } }
               \cup { << "c", "." >>, << " " >> }

DurationTypes == { "eighth", "quarter", "complex" }

ArticulationLists ==
    { << >>, << "tenuto", "staccato", "accent" >>, << "pizzicato", "accent", "staccatissimo" >> }

\* dotted, tied, fingered C sharps with every combination of the seven flags
RichNotes ==
    { [ Note("C", 4, "sharp", ty) EXCEPT !.flags = f, !.triplet = t, !.articulations = a,
                                          !.dots = 1, !.fingering = << << "1", "-", "4" >> >>,
                                          !.tie = "start" ] :
        ty \in { "16th", "complex" }, f \in SUBSET falseKeywords, t \in BOOLEAN,
        a \in ArticulationLists }

\* notes with an accidental, an octave or a step the tables do not have, grace
\* notes, a hidden accidental, the end of a tie, a fingering that is no fingering
OddNotes ==
    { [ Note(s, o, acc, "half") EXCEPT !.flags = f, !.grace = g ] :
        s \in { "D", "H" }, o \in { 5, 9 }, acc \in { "none", "flat", "triple-flat" },
        f \in { {}, {"beamContinue"} }, g \in BOOLEAN }
    \cup { [ Note("D", 5, "flat", "half") EXCEPT !.accDisplay = FALSE, !.tie = "stop",
                                                 !.fingering = << << "6" >> >> ] }

NoteInputs ==
    { [ Note(s, o, "none", ty) EXCEPT !.flags = f ] :
        s \in { "C", "G" }, o \in { 4, 9 }, ty \in DurationTypes,
        f \in { {}, {"beamContinue"} } }
    \cup RichNotes \cup OddNotes

ChordInputs ==
    { ChordCEG, ChordC4D6,
      Chord(<< Pitch("C", 4, "none"), Pitch("C", 4, "sharp") >>, "whole"),
      Chord(<< Pitch("C", 4, "none"), Pitch("E", 9, "none") >>, "half"),
      ChordComplex, ChordC4D5E5, ChordG2E3E4,
      Chord(<< Pitch("C", 4, "none"), Pitch("E", 5, "none") >>, "whole"),
      Chord(<< Pitch("G", 4, "none"), Pitch("B", 4, "none"), Pitch("D", 5, "none"),
               Pitch("G", 5, "none") >>, "whole") }
    \cup { Chord(<< Pitch("C", 2, "none"), Pitch(s, 4, "none") >>, "whole") :
             s \in { "C", "D", "E" } }


ClefInputs == { TrebleClef, NoClef, Clef("BassClef", "F", 4), Clef("Clef", "G", 9) }

\* fingerings: every string of up to MaxFingering characters, and longer ones
\* with changes in a choice, three tokens, and a token of three pieces
MaxFingering == 3
FingeringCharacters == { "1", "4", "6", "x", ",", "|", "-" }
LongFingerings ==
    { << "1", "-", "4", ",", "x" >>, << "x", ",", "1", "-", "4" >>,
      << "1", "-", "4", "|", "4", "-", "1" >>, << "1", "|", "4", "|", "1" >>,
      << "1", ",", "4", ",", "1" >>, << "1", "-", "4", "-", "1" >>,
      << "1", "-", "4", "-", "1", ",", "4" >>, << "1", "-", "6", ",", "4" >>,
      << "1", "-", "4", ",", "4" >>, << "4", "|", "4", "-", "1" >> }
Fingerings ==
    UNION { [1..n -> FingeringCharacters] : n \in 0..MaxFingering } \cup LongFingerings

\* unicode strings: every string of up to MaxText cells and line breaks out of
\* TextCells, and every single cell; ASCII strings likewise, with a lower-case
\* letter and a character that is no braille ASCII
MaxText == 3
TextCells == { Cell({}), Cell({1}), Cell({1,4,6}), newline }
UnicodeTexts ==
    UNION { [1..n -> TextCells] : n \in 0..MaxText } \cup { << c >> : c \in 0..63 }
AsciiTexts ==
    UNION { [1..n -> { "A", "a", "4", "\n" }] : n \in 0..MaxText }
    \cup { << ascii_chars[c] >> : c \in 0..63 } \cup { << "{" >> }

\* tempo texts: a phrase of up to MaxTempoWords words, alone or followed by a
\* comma and a phrase of at most one word; "e_acute" has no glyph
MaxTempoWords == 3
TempoWords == { << "f" >>, << "F", "F" >>, << "f", "e_acute" >> }
TempoPhrases(n) ==
    { joinLines(ws, " ") : ws \in UNION { [1..k -> TempoWords] : k \in 0..n } }
TempoTexts ==
    TempoPhrases(MaxTempoWords)
    \cup { p \o << ",", " " >> \o q : p \in TempoPhrases(MaxTempoWords), q \in TempoPhrases(1) }
LineLengths == { 8, 13, 40 }

\* the parts of a heading
HeadingKeys == { None, KeySignature(0), KeySignature(0 - 2) }
HeadingTimes ==
    { None, TimeSignature("common", << "4" >>, 4), TimeSignature("", << "3" >>, 8),
      TimeSignature("", << "3" >>, 3) }
HeadingTempos ==
    { None, TempoText(<< "f" >>), TempoText(<< "F" >>), TempoText(<< "f", ",", " ", "f" >>),
      TempoText(<< "F", "F", " ", "f", ",", "F", "F", ",", "f" >>),
      TempoText(<< "e_acute" >>) }
HeadingMarks == { None, MetronomeMark(<< "8", "0" >>, "quarter") }

MetronomeNumbers == { << "8", "0" >>, << "6" >>, << "N", "o", "n", "e" >> }

Calls ==
    { [fn |-> "showOctaveWithNote", previous |-> p, current |-> q] :
        p \in Pitches \cup {None}, q \in Pitches }
    \cup { [fn |-> "keySigToBraille", incoming |-> KeySignature(i), outgoing |-> o] :
             i \in SharpsCounts,
             o \in { KeySignature(n) : n \in SharpsCounts } \cup {None} }
    \cup { [fn |-> "barlineToBraille", elem |-> Barline(st)] :
             st \in { "final", "double", "regular" } }
    \cup { [fn |-> "restToBraille", elem |-> Rest(ty, d)] :
             ty \in DurationTypes, d \in 0..1 }
    \cup { [fn |-> "noteToBraille", elem |-> n, showOctave |-> so] :
             n \in NoteInputs, so \in BOOLEAN }
    \cup { [fn |-> "chordToBraille", elem |-> ch, descending |-> d, showOctave |-> so] :
             ch \in ChordInputs, d \in BOOLEAN, so \in BOOLEAN }
    \cup { [fn |-> "clefToBraille", elem |-> cl, changeSuffix |-> cs] :
             cl \in ClefInputs, cs \in BOOLEAN }
    \cup { [fn |-> "dynamicToBraille", elem |-> Dynamic(w), precedeByWordSign |-> ws] :
             w \in Words, ws \in BOOLEAN }
    \cup { [fn |-> "textExpressionToBraille", elem |-> TextExpression(t),
            precedeByWordSign |-> ws] : t \in Contents, ws \in BOOLEAN }
    \cup { [fn |-> "metronomeMarkToBraille", elem |-> MetronomeMark(n, ty)] :
             n \in MetronomeNumbers, ty \in DurationTypes }
    \cup { [fn |-> "transcribeNoteFingering", sampleNoteFingering |-> f,
            upperFirstInFingering |-> u] : f \in Fingerings, u \in BOOLEAN }
    \cup { [fn |-> "brailleUnicodeToBrailleAscii", brailleUnicode |-> s] :
             s \in UnicodeTexts }
    \cup { [fn |-> "brailleAsciiToBrailleUnicode", brailleAscii |-> s] : s \in AsciiTexts }
    \cup { [fn |-> "wordToBraille", sampleWord |-> w, isTextExpression |-> te] :
             w \in Words, te \in BOOLEAN }
    \cup { [fn |-> "tempoTextToBraille", elem |-> TempoText(t), maxLineLength |-> w] :
             t \in TempoTexts, w \in LineLengths }
    \cup { [fn |-> "transcribeHeading", keySignature |-> ks, timeSignature |-> ts,
            tempoText |-> tt, metronomeMark |-> mm, maxLineLength |-> w] :
             ks \in HeadingKeys, ts \in HeadingTimes, tt \in HeadingTempos,
             mm \in HeadingMarks, w \in LineLengths }




\* the notes two threads encode at the same time
SixteenthInBeam == [ Note("C", 4, "none", "16th") EXCEPT !.flags = {"beamContinue"} ]
EighthTriplet == [ Note("D", 4, "none", "eighth") EXCEPT !.triplet = TRUE,
                                                        !.flags = {"beamStart"} ]
QuarterSlurred == [ Note("E", 4, "none", "quarter") EXCEPT !.flags = {"shortSlur"} ]
\* a duration type with no glyph, in a beam
ComplexInBeam == [ Note("F", 4, "none", "complex") EXCEPT !.flags = {"beamContinue"} ]

ThreadNotes == { SixteenthInBeam, EighthTriplet, QuarterSlurred, ComplexInBeam, NoteC4 }

Threads == { "A", "B" }

-----------------------------------------------------------------------------
(* The grouping encoder as a state machine                                  *)

\* beamStatus = {} (line 51)
NoFlags == [ k \in {} |-> FALSE ]

\* the state of the variables no call of transcribeNoteGrouping is running on
NoGrouping ==
    /\ grouping = <<>>
    /\ cfg = defaultConfig
    /\ cfg0 = cfg
    /\ slo0 = TRUE
    /\ showLeadingOctave = slo0
    /\ idx = 1
    /\ trans = <<>>
    /\ previousNote = None
    /\ previousElement = None
    /\ depth = 0
    /\ last = None
    /\ outcome = Idle

Init ==
    /\ grouping \in Groupings
    /\ before = grouping
    /\ cfg \in Configs
    /\ cfg0 = cfg
    /\ slo0 \in BOOLEAN
    /\ showLeadingOctave = slo0
    /\ pc = "loop"
    /\ idx = 1
    /\ trans = <<>>
    /\ previousNote = None
    /\ previousElement = None
    /\ depth = 0
    /\ last = None
    /\ outcome = Idle
    /\ call = [fn |-> "none"]
    /\ ret = Idle
    /\ beamStatus = NoFlags
    /\ threads = << >>

\* the pass of the loop the call is about to make
body == loopBody(grouping[idx], cfg, trans, previousNote, previousElement,
                 showLeadingOctave)

\* the record of a pass b: the locals it started from and what it did
iteration(b) ==
    [ kind |-> "Iteration", at |-> idx, elem |-> grouping[idx], prev |-> previousElement,
      prevNote |-> previousNote, slo |-> showLeadingOctave, before |-> trans,
      config |-> cfg, exc |-> b.exc, enc |-> b.enc, checked |-> b.checked,
      inserted |-> b.inserted ]

\* the pass b ends at line 1158
passEnds(b) ==
    /\ b.exc = "none"
    /\ trans' = b.trans
    /\ previousNote' = b.enc.previousNote
    /\ showLeadingOctave' = b.enc.showLeadingOctave
    /\ previousElement' = grouping[idx]
    /\ idx' = idx + 1
    /\ last' = iteration(b)
    /\ beamStatus' = beamAfter(grouping[idx], cfg, beamStatus)
    /\ grouping' = [grouping EXCEPT ![idx] = elementAfter(@, cfg)]
    /\ UNCHANGED <<before, cfg, cfg0, slo0, pc, depth, outcome, call, ret, threads>>

\* the pass b raises AttributeError: control goes to line 1160 with the local
\* showLeadingOctave as the pass left it
passToHandler(b) ==
    /\ b.exc = "AttributeError"
    /\ pc' = "except"
    /\ showLeadingOctave' = b.enc.showLeadingOctave
    /\ last' = iteration(b)
    /\ beamStatus' = beamAfter(grouping[idx], cfg, beamStatus)
    /\ grouping' = [grouping EXCEPT ![idx] = elementAfter(@, cfg)]
    /\ UNCHANGED <<before, cfg, cfg0, slo0, idx, trans, previousNote, previousElement,
                   depth, outcome, call, ret, threads>>

\* the pass b raises another exception: it leaves every frame of the call
passRaises(b) ==
    /\ b.exc \notin {"none", "AttributeError"}
    /\ pc' = "done"
    /\ outcome' = Raised(b.exc)
    /\ last' = iteration(b)
    /\ beamStatus' = beamAfter(grouping[idx], cfg, beamStatus)
    /\ grouping' = [grouping EXCEPT ![idx] = elementAfter(@, cfg)]
    /\ UNCHANGED <<before, cfg, cfg0, slo0, idx, trans, previousNote, previousElement,
                   showLeadingOctave, depth, call, ret, threads>>

LoopStep == pc = "loop" /\ idx <= Len(grouping) /\ passEnds(body)

LoopAttributeError == pc = "loop" /\ idx <= Len(grouping) /\ passToHandler(body)

LoopRaise == pc = "loop" /\ idx <= Len(grouping) /\ passRaises(body)

\* lines 1160-1164: the defaults are set and the function calls itself
Handler ==
    /\ pc = "except"
    /\ cfg' = defaultConfig
    /\ depth' = depth + 1
    /\ pc' = "loop"
    /\ idx' = 1
    /\ trans' = <<>>
    /\ previousNote' = None
    /\ previousElement' = None
    /\ last' = None
    /\ UNCHANGED <<grouping, before, cfg0, slo0, showLeadingOctave, outcome, call, ret,
                   beamStatus, threads>>

\* line 1159
Return ==
    /\ pc = "loop"
    /\ idx > Len(grouping)
    /\ pc' = "done"
    /\ outcome' = Returned(Join(trans))
    /\ UNCHANGED <<grouping, before, cfg, cfg0, slo0, idx, trans, previousNote,
                   previousElement, showLeadingOctave, depth, last, call, ret, beamStatus,
                   threads>>

Next == LoopStep \/ LoopAttributeError \/ LoopRaise \/ Handler \/ Return

Spec == Init /\ [][Next]_vars

-----------------------------------------------------------------------------
(* Single calls of the encoders and of the two decision functions           *)

InitCall ==
    /\ NoGrouping
    /\ call \in Calls
    /\ before = IF "elem" \in DOMAIN call THEN << call.elem >> ELSE <<>>
    /\ pc = "call"
    /\ ret = Idle
    /\ beamStatus = NoFlags
    /\ threads = << >>

\* the call returns r; beamStatus is left as bs, the element of the call as elem
returnsLeaving(r, bs, elem) ==
    /\ pc = "call"
    /\ ret' = r
    /\ pc' = "done"
    /\ beamStatus' = bs
    /\ call' = IF "elem" \in DOMAIN call THEN [call EXCEPT !.elem = elem] ELSE call
    /\ UNCHANGED <<gvars, threads>>

\* the call returns r and leaves its arguments as they are
returns(r, bs) == returnsLeaving(r, bs, IF "elem" \in DOMAIN call THEN call.elem ELSE None)

ShowOctaveCall ==
    /\ call.fn = "showOctaveWithNote"
    /\ returns(Returned(showOctaveWithNote(call.previous, call.current)), beamStatus)

KeySigCall ==
    /\ call.fn = "keySigToBraille"
    /\ returns(Returned(keySigToBraille(call.incoming, call.outgoing)), beamStatus)

BarlineCall ==
    /\ call.fn = "barlineToBraille"
    /\ returns(Returned(barlineToBraille(call.elem)), beamStatus)

RestCall ==
    /\ call.fn = "restToBraille"
    /\ returns(Returned(restToBraille(call.elem)), beamStatus)

NoteCall ==
    /\ call.fn = "noteToBraille"
    /\ returnsLeaving(Returned(noteToBraille(call.elem, call.showOctave, TRUE)),
                      beamWritten(call.elem), noteAfter(call.elem))

ChordCall ==
    /\ call.fn = "chordToBraille"
    /\ returns(chordToBraille(call.elem, call.descending, call.showOctave),
               beamWritten(initNoteOf(call.elem,
                                      allPitchesOf(call.elem, call.descending)[1])))

ClefCall ==
    /\ call.fn = "clefToBraille"
    /\ returns(Returned(clefToBraille(call.elem, call.changeSuffix)), beamStatus)

DynamicCall ==
    /\ call.fn = "dynamicToBraille"
    /\ returns(dynamicToBraille(call.elem, call.precedeByWordSign), beamStatus)

TextExpressionCall ==
    /\ call.fn = "textExpressionToBraille"
    /\ returns(textExpressionToBraille(call.elem, call.precedeByWordSign), beamStatus)

MetronomeMarkCall ==
    /\ call.fn = "metronomeMarkToBraille"
    /\ returns(metronomeMarkToBraille(call.elem), beamWritten(metroNote(call.elem)))

FingeringCall ==
    /\ call.fn = "transcribeNoteFingering"
    /\ returns(transcribeNoteFingering(call.sampleNoteFingering, call.upperFirstInFingering),
               beamStatus)

UnicodeToAsciiCall ==
    /\ call.fn = "brailleUnicodeToBrailleAscii"
    /\ returns(brailleUnicodeToBrailleAscii(call.brailleUnicode), beamStatus)

AsciiToUnicodeCall ==
    /\ call.fn = "brailleAsciiToBrailleUnicode"
    /\ returns(brailleAsciiToBrailleUnicode(call.brailleAscii), beamStatus)

WordCall ==
    /\ call.fn = "wordToBraille"
    /\ returns(wordToBraille(call.sampleWord, call.isTextExpression), beamStatus)

TempoTextCall ==
    /\ call.fn = "tempoTextToBraille"
    /\ returns(tempoTextToBraille(call.elem, call.maxLineLength), beamStatus)

\* the metronome mark of a heading goes through noteToBraille, which writes
\* beamStatus
HeadingCall ==
    /\ call.fn = "transcribeHeading"
    /\ returns(transcribeHeading(call.keySignature, call.timeSignature, call.tempoText,
                                 call.metronomeMark, call.maxLineLength),
               IF call.metronomeMark = None THEN beamStatus
               ELSE beamWritten(metroNote(call.metronomeMark)))

NextCall ==
    \/ ShowOctaveCall \/ KeySigCall \/ BarlineCall \/ RestCall \/ NoteCall
    \/ ChordCall \/ ClefCall \/ DynamicCall \/ TextExpressionCall \/ MetronomeMarkCall
    \/ FingeringCall \/ UnicodeToAsciiCall \/ AsciiToUnicodeCall \/ WordCall
    \/ TempoTextCall \/ HeadingCall




SpecCall == InitCall /\ [][NextCall]_vars

-----------------------------------------------------------------------------
(* Two calls of noteToBraille on two threads: beamStatus is one dict of the  *)
(* module, each call goes through its sections in order                      *)

startOf(n) ==
    [ note |-> n, at |-> "flags", noteTrans |-> <<>>, result |-> Idle ]

InitConc ==
    /\ NoGrouping
    /\ before = <<>>
    /\ call = [fn |-> "none"]
    /\ ret = Idle
    /\ pc = "threads"
    /\ beamStatus = NoFlags
    /\ threads \in [ Threads -> { startOf(n) : n \in ThreadNotes } ]

\* thread t goes on to section next with s appended to its noteTrans
section(t, s, next) ==
    /\ threads' = [ threads EXCEPT ![t].noteTrans = @ \o s, ![t].at = next ]
    /\ UNCHANGED <<gvars, call, ret, pc>>

\* lines 450-454
WriteFlags(t) ==
    /\ threads[t].at = "flags"
    /\ beamStatus' = noteFlags(threads[t].note)
    /\ section(t, <<>>, "slurs")

\* lines 461-472
OpeningSlurs(t) ==
    /\ threads[t].at = "slurs"
    /\ UNCHANGED beamStatus
    /\ section(t, openingSlurs(beamStatus), "triplet")

\* lines 476-532: the triplet section, then the sections that read the note only
Triplet(t) ==
    /\ threads[t].at = "triplet"
    /\ beamStatus' = afterTriplet(threads[t].note, beamStatus)
    /\ section(t, tripletMark(threads[t].note, beamStatus)
                  \o articulationMarks(threads[t].note)
                  \o accidentalMark(threads[t].note)
                  \o octaveMark(threads[t].note, TRUE), "name")

\* lines 536-582
NameAndDuration(t) ==
    /\ threads[t].at = "name"
    /\ hasGlyph(threads[t].note, beamStatus)
    /\ UNCHANGED beamStatus
    /\ section(t, nameWithDuration(threads[t].note, beamStatus)
                  \o fingerMark(threads[t].note, TRUE), "closing")

\* the return of line 542 or of line 570
NoGlyph(t) ==
    /\ threads[t].at = "name"
    /\ ~hasGlyph(threads[t].note, beamStatus)
    /\ threads' = [ threads EXCEPT ![t].at = "done",
                       ![t].result = Returned(symbols.basic_exception) ]
    /\ UNCHANGED <<gvars, call, ret, pc, beamStatus>>

\* lines 589-610
ClosingSlurs(t) ==
    /\ threads[t].at = "closing"
    /\ threads' = [ threads EXCEPT ![t].at = "done",
                       ![t].result = Returned(threads[t].noteTrans
                                              \o closingSlurs(beamStatus)
                                              \o tieMark(threads[t].note)) ]
    /\ UNCHANGED <<gvars, call, ret, pc, beamStatus>>

NextConc ==
    \E t \in Threads :
        \/ WriteFlags(t) \/ OpeningSlurs(t) \/ Triplet(t)
        \/ NameAndDuration(t) \/ NoGlyph(t) \/ ClosingSlurs(t)

SpecConc == InitConc /\ [][NextConc]_vars

-----------------------------------------------------------------------------
(* Properties                                                               *)

\* whether dot n of a cell is raised
hasDot(cell, n) == (cell \div (2 ^ (n - 1))) % 2 = 1

\* the pass recorded in last has run the if/elif chain to its end
chainDone == last # None /\ last.enc.exc = "none" /\ hasattr(last.config, "upperFirstInNoteFingering")

\* the pass recorded in last has run to line 1158
passDone == last # None /\ last.exc = "none"

\* C1: for every grouping and every configuration, transcribeNoteGrouping
\* returns a string: no exception leaves the call.
C1_NeverRaises == pc = "done" => outcome.exc = "none"

\* what the encoder can represent, for a barline and for a metronome mark
barlineKnown(e) == e.style \in { "final", "double", "heavy" }
metronomeKnown(e) ==
    /\ e.type \in { "16th", "eighth", "quarter", "half", "whole" }
    /\ \A i \in 1..Len(e.number) : digitValue(e.number[i]) >= 0

\* C2: an element encoder that cannot represent its element returns exactly
\* the placeholder glyph, with nothing before or after it (stated for the
\* barline and the metronome mark encoders).
C2_PlaceholderAlone ==
    /\ (pc = "done" /\ call.fn = "barlineToBraille" /\ ~barlineKnown(call.elem))
          => ret = Returned(symbols.basic_exception)
    /\ (pc = "done" /\ call.fn = "metronomeMarkToBraille" /\ ~metronomeKnown(call.elem))
          => ret = Returned(symbols.basic_exception)

\* the rule of the octave marker on the interval between two pitches
octaveRule(previous, current) ==
    LET g == genericUndirected(previous, current)
    IN IF g >= 6 THEN TRUE
       ELSE IF g \in {4, 5} THEN previous.octave # current.octave
       ELSE FALSE

\* C3: showOctaveWithNote returns true iff previous is null, or the generic
\* interval g is >= 6, or g is 4 or 5 and the octave numbers differ; it
\* returns false for g in 1..3 and for g in {4,5} with equal octave numbers.
C3_ShowOctaveRule ==
    (pc = "done" /\ call.fn = "showOctaveWithNote") =>
        /\ ret.exc = "none"
        /\ ret.val = (call.previous = None \/ octaveRule(call.previous, call.current))

\* a fourth across an octave boundary got the marker
C3_Witness ==
    /\ pc = "done" /\ call.fn = "showOctaveWithNote" /\ call.previous # None
    /\ genericUndirected(call.previous, call.current) = 4
    /\ call.previous.octave # call.current.octave
    /\ ret = Returned(TRUE)

isPitched(e) == e.kind \in { "Note", "Chord" }
isWordOrShownClef(e, c) ==
    \/ e.kind \in { "Dynamic", "TextExpression" }
    \/ (e.kind = "Clef" /\ hasattr(c, "showClefSigns") /\ c.showClefSigns)

\* element i of the grouping comes after a Dynamic, a TextExpression or a shown
\* Clef with no Note or Chord in between
afterWord(i, c) ==
    \E j \in 1..(i - 1) :
        /\ isWordOrShownClef(grouping[j], c)
        /\ \A k \in (j + 1)..(i - 1) : ~isPitched(grouping[k])

\* the string of a Note or a Chord encoded with showOctave = so
pitchedString(e, c, so) ==
    IF e.kind = "Note" THEN noteToBraille(e, so, c.upperFirstInNoteFingering)
    ELSE chordToBraille(e, c.descendingChords, so).val

\* C4: after a Dynamic, a TextExpression or a shown Clef the next Note or
\* Chord is encoded with its octave marker, whatever the interval to the last
\* pitched element and whatever the showLeadingOctave argument; a Rest, a
\* Barline, a Clef that is not shown and an unsupported element leave
\* previousNote and showLeadingOctave as they were.
C4_OctaveAfterWord ==
    /\ (chainDone /\ isPitched(last.elem) /\ afterWord(last.at, last.config)) =>
          /\ last.enc.doShowOctave
          /\ last.enc.out = pitchedString(last.elem, last.config, TRUE)
          /\ last.enc.out # symbols.basic_exception =>
                last.enc.out # pitchedString(last.elem, last.config, FALSE)
    /\ (passDone /\ ~isPitched(last.elem) /\ ~isWordOrShownClef(last.elem, last.config)) =>
          /\ previousNote = last.prevNote
          /\ showLeadingOctave = last.slo

\* a note a unison from the note before the Dynamic, in a call with
\* showLeadingOctave = False, got its octave marker
C4_Witness ==
    /\ grouping = << NoteE5, DynamicF, NoteE5 >>
    /\ slo0 = FALSE /\ depth = 0
    /\ passDone /\ last.at = 3
    /\ last.enc.out = octaves[5] \o pitchNameToNotes("E")["quarter"]

\* the three cases the dot-3 check is made in
dot3Case(prev, cur, c) ==
    \/ (prev.kind = "Clef" /\ c.showClefSigns)
    \/ (prev.kind = "Dynamic" /\ cur.kind \notin { "Dynamic", "TextExpression" })
    \/ (/\ prev.kind = "TextExpression"
        /\ prev.content[Len(prev.content)] # "."
        /\ cur.kind \notin { "Dynamic", "TextExpression" })

\* C5: the dot-3 check is applied for the current element exactly when the
\* previous element was a Clef and showClefSigns is true, or was a Dynamic and
\* the current one is neither Dynamic nor TextExpression, or was a
\* TextExpression not ending in a period and the current one is neither; in
\* every other case, the first element included, no marker is inserted.
C5_Dot3Cases ==
    (chainDone /\ last.exc # "AttributeError") =>
        /\ last.checked = (last.prev # None /\ dot3Case(last.prev, last.elem, last.config))
        /\ last.inserted => last.checked

\* the check was made after a TextExpression that does not end in a period
C5_Witness ==
    /\ passDone /\ last.checked
    /\ last.prev = ExpressionDe /\ last.elem = NoteE5

\* the list trans of the pass recorded in last, as the if/elif chain left it
listAfterChain ==
    IF last.enc.appended THEN Append(last.before, last.enc.out) ELSE last.before

\* the first cell of trans[-1], the cell the check looks at
cellChecked == listAfterChain[Len(listAfterChain)][1]

\* C6, as the specification words it: when the check applies, one dot-3 marker
\* is inserted iff the top-row pattern of the cell looked at has its right dot
\* (dot 4) set, and nothing is inserted for every other pattern.
C6_TopRowRightDot ==
    (passDone /\ last.checked) => (last.inserted <=> hasDot(cellChecked, 4))

\* C6, as the code has it: when the check applies and trans[-1] is not empty,
\* one dot-3 marker is inserted iff the first cell of trans[-1] has one of its
\* left dots (dots 1, 2, 3) set, and it is inserted immediately before
\* trans[-1]; otherwise the list is left as it is.
C6_LeftColumnDot ==
    (passDone /\ last.checked) =>
        /\ last.inserted <=> (\E n \in {1, 2, 3} : hasDot(cellChecked, n))
        /\ last.inserted =>
             trans = SubSeq(listAfterChain, 1, Len(listAfterChain) - 1)
                     \o << symbols.dot, listAfterChain[Len(listAfterChain)] >>
        /\ ~last.inserted => trans = listAfterChain

\* a dot 3 was put between a Dynamic and a quarter rest (dots 1-2-3-6)
C6_Witness ==
    /\ passDone /\ last.checked /\ last.inserted
    /\ last.prev = DynamicF /\ last.elem = RestQuarter
    /\ trans = << dynamicToBraille(DynamicF, TRUE).val, symbols.dot,
                  restToBraille(RestQuarter) >>

\* the configuration cfg0 with each missing attribute at its default
withDefaults(c) ==
    [ n \in ConfigNames |-> IF n \in DOMAIN c THEN c[n] ELSE defaultConfig[n] ]

\* C7: for a grouping that lacks some of the three attributes, the call returns
\* what it returns for the same elements with the missing attributes set to
\* their defaults and the same showLeadingOctave argument.
C7_DefaultsForMissing ==
    (pc = "done" /\ DOMAIN cfg0 # ConfigNames) =>
        outcome = loopFrom(grouping, 1, withDefaults(cfg0), <<>>, None, None, slo0)

\* C8: after the call each attribute the grouping had before the call has the
\* value it had before.
C8_ConfigKept ==
    pc = "done" => \A n \in DOMAIN cfg0 : n \in DOMAIN cfg /\ cfg[n] = cfg0[n]

\* C9: each of two concurrent calls of noteToBraille returns what it returns
\* when it runs alone, for every interleaving of their steps.
C9_AsWhenAlone ==
    \A t \in Threads :
        threads[t].at = "done" =>
            threads[t].result = Returned(noteToBraille(threads[t].note, TRUE, TRUE))

\* the number of naturals the cancellation rule asks for
naturalsWanted(i, o) ==
    IF i = 0 \/ o = 0 \/ (i > 0 /\ o < 0) \/ (i < 0 /\ o > 0) THEN Abs(o)
    ELSE IF Abs(o) >= Abs(i) THEN Abs(o) - Abs(i)
    ELSE 0

\* C10: with an outgoing key signature, keySigToBraille puts before the
\* incoming signature's glyph the naturals of: the outgoing magnitude when the
\* counts have opposite signs or either is zero; the difference of magnitudes
\* when they have the same sign and the outgoing magnitude is >= the incoming
\* one; none otherwise.  Incoming 0 and outgoing -3 give three naturals and
\* nothing else.
C10_NaturalsRule ==
    (/\ pc = "done" /\ call.fn = "keySigToBraille" /\ call.outgoing # None
     /\ call.incoming.sharps \in DOMAIN keySignatures
     /\ naturalsWanted(call.incoming.sharps, call.outgoing.sharps) \in DOMAIN naturals) =>
        /\ ret = Returned(naturals[naturalsWanted(call.incoming.sharps,
                                                  call.outgoing.sharps)]
                          \o keySignatures[call.incoming.sharps])
        /\ (call.incoming.sharps = 0 /\ call.outgoing.sharps = -3) =>
              ret.val = << Cell({1, 6}), Cell({1, 6}), Cell({1, 6}) >>

\* from five flats to two flats: three naturals, then the two flats
C10_Witness ==
    /\ pc = "done" /\ call.fn = "keySigToBraille"
    /\ call.incoming = KeySignature(-2) /\ call.outgoing = KeySignature(-5)
    /\ ret = Returned(<< Cell({1, 6}), Cell({1, 6}), Cell({1, 6}) >>
                      \o keySignatures[-2])

\* C11: keySigToBraille returns exactly the placeholder glyph when the
\* incoming count has no entry in keySignatures, with or without an outgoing
\* signature; when the incoming count has an entry and the count of naturals
\* the cancellation rule asks for has none, it returns the incoming
\* signature's glyph alone.
C11_KeySigMisses ==
    (pc = "done" /\ call.fn = "keySigToBraille") =>
        /\ call.incoming.sharps \notin DOMAIN keySignatures =>
              ret = Returned(symbols.basic_exception)
        /\ (/\ call.incoming.sharps \in DOMAIN keySignatures
            /\ call.outgoing # None
            /\ naturalsWanted(call.incoming.sharps, call.outgoing.sharps)
                  \notin DOMAIN naturals) =>
              ret = Returned(keySignatures[call.incoming.sharps])

\* from eight flats to two sharps: eight naturals have no entry, the two
\* sharps are returned alone
C11_Witness ==
    /\ pc = "done" /\ call.fn = "keySigToBraille"
    /\ call.incoming = KeySignature(2) /\ call.outgoing = KeySignature(-8)
    /\ 8 \notin DOMAIN naturals
    /\ ret = Returned(Repeat(accidentals["sharp"], 2))

\* the number a pitch at generic interval g from the base is written as
intervalWritten(g) == IF g >= 9 THEN (g % 8) + 1 ELSE g

\* whether an octave mark goes before the interval number of allPitches[i]
octaveMarkWanted(allPitches, i) ==
    /\ genericUndirected(allPitches[1], allPitches[i]) >= 9
    /\ (i = 2 \/ genericUndirected(allPitches[i - 1], allPitches[i]) >= 8)

\* every table entry the pitches after the base need is there
chordEntriesKnown(allPitches) ==
    \A i \in 2..Len(allPitches) :
        /\ intervalWritten(genericUndirected(allPitches[1], allPitches[i])) \in DOMAIN intervals
        /\ octaveMarkWanted(allPitches, i) => allPitches[i].octave \in DOMAIN octaves

\* what the pitch allPitches[i] adds to the chord's string
chordPitchWanted(allPitches, i) ==
    (IF octaveMarkWanted(allPitches, i) THEN octaves[allPitches[i].octave] ELSE <<>>)
    \o intervals[intervalWritten(genericUndirected(allPitches[1], allPitches[i]))]

\* C12: in chordToBraille a pitch at generic interval >= 9 from the base is
\* written as interval % 8 + 1, with an octave mark before the number always
\* for the first pitch after the base and for a later pitch only when it is
\* an octave or more from the pitch before it; a pitch at interval <= 8 gets
\* its interval number and no octave mark.  The call raises KeyError exactly
\* when one of these entries is missing and the base note has a glyph.
C12_ChordIntervals ==
    (/\ pc = "done" /\ call.fn = "chordToBraille"
     /\ ret # Returned(symbols.basic_exception)) =>
        IF chordEntriesKnown(allPitchesOf(call.elem, call.descending))
        THEN ret = Returned(
                 noteToBraille(initNoteOf(call.elem,
                                          allPitchesOf(call.elem, call.descending)[1]),
                               call.showOctave, TRUE)
                 \o Join([ i \in 1..(Len(call.elem.pitches) - 1) |->
                             chordPitchWanted(allPitchesOf(call.elem, call.descending),
                                              i + 1) ]))
        ELSE ret.exc = "KeyError"

\* C4, D5, E5 ascending: the ninth is written as a second after the mark of
\* octave 5, the tenth as a third with no mark
C12_Witness ==
    /\ pc = "done" /\ call.fn = "chordToBraille"
    /\ call.elem = ChordC4D5E5 /\ ~call.descending /\ call.showOctave
    /\ ret = Returned(octaves[4] \o pitchNameToNotes("C")["whole"]
                      \o octaves[5] \o intervals[2] \o intervals[3])

\* base is the highest pitch of chord e when descending, the lowest otherwise
isExtreme(e, descending, base) ==
    /\ \E i \in 1..Len(e.pitches) : e.pitches[i] = base
    /\ \A i \in 1..Len(e.pitches) :
          IF descending THEN ps(e.pitches[i]) <= ps(base) ELSE ps(e.pitches[i]) >= ps(base)

\* the string out is the placeholder when the base note's string is, and
\* starts with the base note's string otherwise
startsWithBase(out, brailleNote) ==
    IF brailleNote = symbols.basic_exception THEN out = symbols.basic_exception
    ELSE Len(out) >= Len(brailleNote) /\ SubSeq(out, 1, Len(brailleNote)) = brailleNote

\* the pass recorded in last, on a Chord, agrees with base as the chord's base pitch
chordBaseRule(base) ==
    /\ isExtreme(last.elem, last.config.descendingChords, base)
    /\ last.enc.previousNote = base
    /\ previousNote = base
    /\ last.enc.doShowOctave =
          (IF last.prevNote = None THEN last.slo
           ELSE showOctaveWithNote(last.prevNote, base))
    /\ startsWithBase(last.enc.out,
                      noteToBraille(initNoteOf(last.elem, base), last.enc.doShowOctave, TRUE))

\* C13: the pitch chordToBraille encodes as the chord's base note is the
\* highest pitch when descending and the lowest when ascending; it is the
\* pitch transcribeNoteGrouping makes the octave decision for and keeps as
\* previousNote; when the base note's string is the placeholder the chord's
\* string is the placeholder alone.
C13_ChordBase ==
    (passDone /\ last.elem.kind = "Chord") =>
        chordBaseRule(allPitchesOf(last.elem, last.config.descendingChords)[1])

\* after C4 the chord C4 E4 G4, descending: G4 is the base, a fifth from C4
\* in the same octave, so no octave mark; G4 is kept as previousNote
C13_Witness ==
    /\ grouping = << NoteC4, ChordCEG >>
    /\ passDone /\ last.at = 2 /\ last.config.descendingChords
    /\ previousNote = Pitch("G", 4, "none")
    /\ ~last.enc.doShowOctave
    /\ last.enc.out = pitchNameToNotes("G")["whole"] \o intervals[3] \o intervals[5]

\* the slur markers of a note whose flags are bs, one by one
openingLongSlur(bs) ==
    IF bs.beginLongBracketSlur THEN symbols.opening_bracket_slur
    ELSE IF bs.beginLongDoubleSlur THEN symbols.opening_double_slur
    ELSE <<>>
combinedClose(bs) ==
    IF bs.beginLongBracketSlur /\ bs.endLongBracketSlur
    THEN symbols.closing_bracket_slur ELSE <<>>
shortSlurOpening(bs) == IF bs.shortSlur THEN symbols.opening_single_slur ELSE <<>>
slurClosing(bs) ==
    IF bs.beginLongBracketSlur /\ bs.endLongBracketSlur THEN <<>>
    ELSE IF bs.endLongDoubleSlur THEN symbols.closing_double_slur
    ELSE IF bs.endLongBracketSlur THEN symbols.closing_bracket_slur
    ELSE <<>>

\* the articulation names of a note that are neither staccato nor
\* staccatissimo, in the order of the names
otherNamesSorted(n) ==
    sortedBy(n.articulations,
             [ i \in 1..Len(n.articulations) |-> nameRank(n.articulations[i]) ])

\* the thirteen components of a note's string, in order; the glyph is the one
\* the call took
componentsInOrder(n, showOctave, glyph) ==
    << openingLongSlur(noteFlags(n)),
       combinedClose(noteFlags(n)),
       IF n.triplet /\ "beamStart" \in n.flags THEN symbols.triplet ELSE <<>>,
       staccatoMarks(n.articulations),
       otherMarks(otherNamesSorted(n)),
       accidentalMark(n),
       octaveMark(n, showOctave),
       glyph,
       IF n.grace THEN <<>> ELSE Repeat(symbols.dot, n.dots),
       fingerMark(n, TRUE),
       shortSlurOpening(noteFlags(n)),
       slurClosing(noteFlags(n)),
       tieMark(n) >>

\* C14: the string noteToBraille returns is its components in this order:
\* opening long slur, combined closing bracket, triplet, staccato and
\* staccatissimo, the other articulations sorted by name, accidental, octave
\* mark, glyph of name and duration, dots, fingering, short slur, slur
\* closing, tie.
C14_ComponentOrder ==
    (/\ pc = "done" /\ call.fn = "noteToBraille"
     /\ ret # Returned(symbols.basic_exception)) =>
        ret = Returned(Join(componentsInOrder(
                  call.elem, call.showOctave,
                  pitchNameToNotes(call.elem.step)[glyphType(call.elem,
                                                             beamWritten(call.elem))])))

\* a dotted, fingered, tied 16th C sharp that starts a beam, with a triplet,
\* a tenuto, a staccato and an accent: triplet, staccato, accent, tenuto,
\* sharp, octave 4, glyph, dot, fingering 1-4, tie
C14_Witness ==
    /\ pc = "done" /\ call.fn = "noteToBraille" /\ call.showOctave
    /\ call.elem.flags = {"beamStart"} /\ call.elem.triplet
    /\ before[1].articulations = << "tenuto", "staccato", "accent" >>
    /\ call.elem.type = "16th"
    /\ ret = Returned(symbols.triplet \o beforeNoteExpr["staccato"]
                      \o beforeNoteExpr["accent"] \o beforeNoteExpr["tenuto"]
                      \o accidentals["sharp"] \o octaves[4]
                      \o pitchNameToNotes("C")["16th"] \o symbols.dot
                      \o fingerMarks["1"] \o symbols.finger_change \o fingerMarks["4"]
                      \o symbols.tie)

\* the duration type the glyph of note n is looked up by: eighth for a grace
\* note and for a note whose beamContinue flag is still set when the glyph is
\* chosen, the note's own type otherwise
typeLookedUp(n) ==
    IF n.grace THEN "eighth"
    ELSE IF "beamContinue" \in n.flags /\ ~(n.triplet /\ "beamStart" \notin n.flags)
         THEN "eighth"
    ELSE n.type

\* the step and the duration type t have a glyph
glyphKnown(n, t) == n.step \in StepSet /\ t \in DOMAIN pitchNameToNotes(n.step)

\* C15, as the specification words it: noteToBraille returns exactly the
\* placeholder when the note's step or the note's duration type has no entry.
C15_OwnTypeMiss ==
    (pc = "done" /\ call.fn = "noteToBraille" /\ ~glyphKnown(call.elem, call.elem.type)) =>
        ret = Returned(symbols.basic_exception)

\* C15, as the code has it: noteToBraille returns exactly the placeholder
\* when the step, or the duration type the glyph is looked up by, has no
\* entry; otherwise an accidental with no entry and an octave with no entry
\* are left out and the rest of the note is returned.
C15_Misses ==
    (pc = "done" /\ call.fn = "noteToBraille") =>
        IF ~glyphKnown(call.elem, typeLookedUp(call.elem))
        THEN ret = Returned(symbols.basic_exception)
        ELSE /\ ret.exc = "none" /\ ret.val # symbols.basic_exception
             /\ call.elem.acc \notin DOMAIN accidentals =>
                   ret.val = noteToBraille([call.elem EXCEPT !.acc = "none"],
                                           call.showOctave, TRUE)
             /\ call.elem.octave \notin DOMAIN octaves =>
                   ret.val = noteToBraille(call.elem, FALSE, TRUE)

\* a half note D in octave 9 with a triple flat, octave asked for: neither has
\* an entry, the glyph of the half note D is returned alone
C15_Witness ==
    /\ pc = "done" /\ call.fn = "noteToBraille" /\ call.showOctave
    /\ call.elem.step = "D" /\ call.elem.octave = 9 /\ call.elem.acc = "triple-flat"
    /\ call.elem.flags = {} /\ ~call.elem.grace
    /\ 9 \notin DOMAIN octaves /\ "triple-flat" \notin DOMAIN accidentals
    /\ ret = Returned(pitchNameToNotes("D")["half"])

\* a call of noteToBraille on a note that is no grace note, has its
\* beamContinue flag set and a step of the table has returned
beamedNoteDone ==
    /\ pc = "done" /\ call.fn = "noteToBraille"
    /\ ~call.elem.grace /\ "beamContinue" \in call.elem.flags
    /\ call.elem.step \in StepSet

\* the string of the call's note with the glyph of duration type t
stringWithGlyphOf(t) ==
    Returned(Join(componentsInOrder(call.elem, call.showOctave,
                                    pitchNameToNotes(call.elem.step)[t])))

\* C16, as the specification words it: every note that is no grace note and
\* has beamContinue set gets the eighth glyph of its step, with or without a
\* triplet; the triplet mark is there only for a triplet note with beamStart.
C16_EighthWhenBeamContinue == beamedNoteDone => ret = stringWithGlyphOf("eighth")

\* C16, as the code has it: such a note gets the eighth glyph of its step,
\* except a triplet note whose beamStart flag is not set, which gets the
\* glyph of its own duration type (the placeholder when that type has none);
\* the triplet mark is there only for a triplet note with beamStart.
C16_EighthUnlessTriplet ==
    beamedNoteDone =>
        IF call.elem.triplet /\ "beamStart" \notin call.elem.flags
        THEN IF call.elem.type \in DOMAIN pitchNameToNotes(call.elem.step)
             THEN ret = stringWithGlyphOf(call.elem.type)
             ELSE ret = Returned(symbols.basic_exception)
        ELSE ret = stringWithGlyphOf("eighth")

\* a 16th C sharp with a triplet and beamContinue, not starting the beam: no
\* triplet mark, and the glyph of the 16th, not of the eighth
C16_Witness ==
    /\ pc = "done" /\ call.fn = "noteToBraille" /\ ~call.showOctave
    /\ call.elem.triplet /\ call.elem.flags = {"beamContinue"}
    /\ call.elem.type = "16th" /\ call.elem.articulations = << >>
    /\ pitchNameToNotes("C")["16th"] # pitchNameToNotes("C")["eighth"]
    /\ ret = Returned(accidentals["sharp"] \o pitchNameToNotes("C")["16th"] \o symbols.dot
                      \o fingerMarks["1"] \o symbols.finger_change \o fingerMarks["4"]
                      \o symbols.tie)

longSlurFlags ==
    { "beginLongBracketSlur", "endLongBracketSlur", "beginLongDoubleSlur",
      "endLongDoubleSlur" }

\* the string s, which ends with the string tail, with the string close put
\* before that tail
closedBeforeTail(s, close, tail) ==
    SubSeq(s, 1, Len(s) - Len(tail)) \o close \o tail

\* C17: whatever the four long-slur flags are, the note's string is the
\* string of the same note without them, with at most one opening marker in
\* front (bracket if beginLongBracketSlur, else double if
\* beginLongDoubleSlur), the bracket close right after it when the note both
\* begins and ends a bracket slur, and otherwise at most one closing marker
\* before the tie (double if endLongDoubleSlur, else bracket if
\* endLongBracketSlur).
C17_LongSlurs ==
    (/\ pc = "done" /\ call.fn = "noteToBraille"
     /\ ret # Returned(symbols.basic_exception)) =>
        ret = Returned(
            openingLongSlur(noteFlags(call.elem)) \o combinedClose(noteFlags(call.elem))
            \o closedBeforeTail(
                  noteToBraille([call.elem EXCEPT !.flags = @ \ longSlurFlags],
                                call.showOctave, TRUE),
                  slurClosing(noteFlags(call.elem)),
                  tieMark(call.elem)))

\* a note that begins and ends a bracket slur and ends a double slur: bracket
\* opening, bracket close, and no closing marker before the tie
C17_Witness ==
    /\ pc = "done" /\ call.fn = "noteToBraille" /\ ~call.showOctave
    /\ call.elem.flags = { "beginLongBracketSlur", "endLongBracketSlur", "endLongDoubleSlur" }
    /\ ~call.elem.triplet /\ call.elem.articulations = << >> /\ call.elem.type = "16th"
    /\ ret = Returned(symbols.opening_bracket_slur \o symbols.closing_bracket_slur
                      \o accidentals["sharp"] \o pitchNameToNotes("C")["16th"] \o symbols.dot
                      \o fingerMarks["1"] \o symbols.finger_change \o fingerMarks["4"]
                      \o symbols.tie)

\* the tokens of known marks among the characters of the inputs: a mark, or
\* a change of two marks
knownMarks == FingeringCharacters \cap DOMAIN fingerMarks
knownTokens ==
    { << m >> : m \in knownMarks } \cup { << p, "-", q >> : p, q \in knownMarks }

\* the encoding of a token of known marks
tokenEncoding(t) ==
    IF Len(t) = 1 THEN fingerMarks[t[1]]
    ELSE fingerMarks[t[1]] \o symbols.finger_change \o fingerMarks[t[3]]

\* C18: for a choice 'a,b' or 'a|b' of two tokens of known marks,
\* transcribeNoteFingering returns the encoding of a then that of b when
\* upperFirstInFingering is true and that of b then that of a when it is
\* false; a token is a mark or a change 'p-q', encoded as mark p, change
\* glyph, mark q; a single known mark is returned as that mark alone.
C18_ChoiceOrder ==
    (pc = "done" /\ call.fn = "transcribeNoteFingering") =>
        /\ \A a, b \in knownTokens : \A sep \in { ",", "|" } :
              call.sampleNoteFingering = a \o << sep >> \o b =>
                  ret = Returned(IF call.upperFirstInFingering
                                 THEN tokenEncoding(a) \o tokenEncoding(b)
                                 ELSE tokenEncoding(b) \o tokenEncoding(a))
        /\ \A m \in knownMarks :
              call.sampleNoteFingering = << m >> => ret = Returned(fingerMarks[m])

\* '1-4,4' with upperFirstInFingering false: mark 4, then mark 1, change, mark 4
C18_Witness ==
    /\ pc = "done" /\ call.fn = "transcribeNoteFingering"
    /\ call.sampleNoteFingering = << "1", "-", "4", ",", "4" >>
    /\ ~call.upperFirstInFingering
    /\ ret = Returned(fingerMarks["4"] \o fingerMarks["1"] \o symbols.finger_change
                      \o fingerMarks["4"])

\* a call of transcribeNoteFingering on 'x,t' (absentFirst) or on 't,x', t a
\* token of known marks, has returned
absentCallDone(t, absentFirst) ==
    /\ pc = "done" /\ call.fn = "transcribeNoteFingering"
    /\ call.sampleNoteFingering =
          (IF absentFirst THEN << "x", "," >> \o t ELSE t \o << ",", "x" >>)

\* the absent side encoded as glyph, on the side of the output that
\* upperFirstInFingering puts it on
withAbsent(t, absentFirst, glyph) ==
    IF absentFirst = call.upperFirstInFingering
    THEN Returned(glyph \o tokenEncoding(t))
    ELSE Returned(tokenEncoding(t) \o glyph)

\* C19, as the specification words it: the glyph of the absent side is chosen
\* by the place of 'x' in the fingering as given, the first-set glyph for
\* 'x,t' and the second-set glyph for 't,x', for both values of
\* upperFirstInFingering.
C19_AbsentByGivenOrder ==
    \A t \in knownTokens : \A absentFirst \in BOOLEAN :
        absentCallDone(t, absentFirst) =>
            ret = withAbsent(t, absentFirst,
                             IF absentFirst THEN symbols.first_set_missing_fingermark
                             ELSE symbols.second_set_missing_fingermark)

\* C19, as the code has it: the glyph of the absent side is chosen by its
\* place in the output, after the reversal upperFirstInFingering = false
\* makes: the first-set glyph when the absent side is written first, the
\* second-set glyph when it is written second.
C19_AbsentByWrittenOrder ==
    \A t \in knownTokens : \A absentFirst \in BOOLEAN :
        absentCallDone(t, absentFirst) =>
            ret = withAbsent(t, absentFirst,
                             IF absentFirst = call.upperFirstInFingering
                             THEN symbols.first_set_missing_fingermark
                             ELSE symbols.second_set_missing_fingermark)

\* 'x,4' with upperFirstInFingering false: mark 4, then the second-set glyph
C19_Witness ==
    /\ pc = "done" /\ call.fn = "transcribeNoteFingering"
    /\ call.sampleNoteFingering = << "x", ",", "4" >> /\ ~call.upperFirstInFingering
    /\ ret = Returned(fingerMarks["4"] \o symbols.second_set_missing_fingermark)

\* the fingerings of the grammar over the known marks of the inputs: a token;
\* two tokens with a comma between, either of which may be 'x'; two tokens
\* with a bar between
validFingerings ==
    knownTokens
    \cup { a \o << "," >> \o b : a, b \in knownTokens \cup { << "x" >> } }
    \cup { a \o << "|" >> \o b : a, b \in knownTokens }

\* C20: for every fingering outside the grammar (more than two tokens under
\* ',' or '|', a token with more than one '-', an empty token) and for every
\* fingering with a mark that is neither a known mark nor 'x' in a comma
\* choice, transcribeNoteFingering raises BrailleBasicException and returns
\* nothing.
C20_InvalidFingeringRaises ==
    (/\ pc = "done" /\ call.fn = "transcribeNoteFingering"
     /\ call.sampleNoteFingering \notin validFingerings) =>
        ret = Raised("BrailleBasicException")

-----------------------------------------------------------------------------
(* The codec                                                                *)

\* the lengths of the lines of a string, the lines being what lies between
\* its line breaks
lineLengths(text, break) ==
    LET breaks == { i \in DOMAIN text : text[i] = break }
        ends == breaks \cup { Len(text) + 1 }
    IN  { << Cardinality({ b \in breaks : b < e }),
             e - 1 - Cardinality({ b \in breaks : b < e })
               - Cardinality({ i \in DOMAIN text : i < e /\ text[i] # break
                                 /\ \E b \in breaks : i < b /\ b < e }) >> : e \in ends }

\* C21: for every string s of cells of the table and line breaks, decoding the
\* ASCII form of s gives s back, the ASCII form has as many lines as s and as
\* many characters in each line, and decoding the ASCII character of a cell
\* gives that cell.
C21_RoundTrip ==
    (pc = "done" /\ call.fn = "brailleUnicodeToBrailleAscii") =>
        /\ ret.exc = "none"
        /\ brailleAsciiToBrailleUnicode(ret.val) = Returned(call.brailleUnicode)
        /\ lineLengths(ret.val, "\n") = lineLengths(call.brailleUnicode, newline)
        /\ (Len(call.brailleUnicode) = 1 /\ call.brailleUnicode # << newline >>) =>
               /\ Len(ret.val) = 1
               /\ brailleAsciiToBrailleUnicode(ret.val) = Returned(call.brailleUnicode)

-----------------------------------------------------------------------------
(* Words                                                                    *)

\* the glyphs of one character of a word whose letters all have a glyph
glyphsOfCharacter(c, isTextExpression) ==
    IF isTextExpression /\ c = "." THEN symbols.dot
    ELSE IF isupper(c)
         THEN (IF isTextExpression THEN <<>> ELSE symbols.uppercase) \o alphabet[lower(c)]
         ELSE alphabet[c]

translatable(c, isTextExpression) ==
    (isTextExpression /\ c = ".") \/ lower(c) \in DOMAIN alphabet

\* C22: in both modes wordToBraille either returns the translation of every
\* character (an upper-case letter after the shift marker in normal mode, as
\* the plain letter in text-expression mode, a period as the dot marker in
\* text-expression mode) or raises BrailleBasicException and returns nothing.
C22_WordOrBasicException ==
    (pc = "done" /\ call.fn = "wordToBraille") =>
        IF \A i \in DOMAIN call.sampleWord :
               translatable(call.sampleWord[i], call.isTextExpression)
        THEN ret = Returned(Join([ i \in DOMAIN call.sampleWord |->
                 glyphsOfCharacter(call.sampleWord[i], call.isTextExpression) ]))
        ELSE ret = Raised("BrailleBasicException")

-----------------------------------------------------------------------------
(* Headings                                                                 *)

headingDone == pc = "done" /\ call.fn = "transcribeHeading"

\* line is content centred to the width: blank cells on both sides, as many on
\* one side as on the other or one more, up to the width
isCentred(line, content, width) ==
    \E l, r \in 0..width :
        /\ line = Repeat(symbols.space, l) \o content \o Repeat(symbols.space, r)
        /\ l - r \in { 0 - 1, 0, 1 }
        /\ Len(line) = IF Len(content) > width THEN Len(content) ELSE width

\* no time signature, and no key signature or one of zero sharps
signaturesEmpty(ks, ts) == ts = None /\ (ks = None \/ ks.sharps = 0)

\* the line of the metronome mark and the signatures, a blank between them
otherLine(mm, ks, ts) ==
    LET marks == IF mm = None THEN <<>> ELSE << metronomeMarkToBraille(mm).val >>
        keySig == IF ks = None THEN <<>> ELSE keySigToBraille(ks, None)
        timeSig == IF ts = None THEN <<>> ELSE timeSigToBraille(ts).val
    IN  joinLines(marks \o (IF signaturesEmpty(ks, ts) THEN <<>>
                            ELSE << keySig \o timeSig >>),
                  symbols.space[1])

\* the lines of the tempo text of a heading
tempoLines(tt) == splitlines(tempoTextToBraille(tt, 40).val, newline)

\* every line of lines is the line of contents at the same place, centred
linesCentred(lines, contents, width) ==
    /\ Len(lines) = Len(contents)
    /\ \A i \in DOMAIN contents : isCentred(lines[i], contents[i], width)

\* C23: a heading with tempo text and other content: when the tempo text, a
\* blank and the line of metronome mark and signatures exceed maxLineLength - 6,
\* the tempo-text lines come first, in order, then the line of metronome mark
\* and signatures, every line centred on its own; when they fit, the heading
\* is one centred line of all of them joined by single blanks.
C23_HeadingLayout ==
    (/\ headingDone /\ call.tempoText # None
     /\ (call.metronomeMark # None
           \/ ~signaturesEmpty(call.keySignature, call.timeSignature))) =>
        LET other == otherLine(call.metronomeMark, call.keySignature, call.timeSignature)
            contents == Append(tempoLines(call.tempoText), other)
        IN  /\ ret.exc = "none"
            /\ IF Len(tempoTextToBraille(call.tempoText, 40).val) + 1 + Len(other)
                    > call.maxLineLength - 6
               THEN linesCentred(splitlines(ret.val, newline), contents, call.maxLineLength)
               ELSE isCentred(ret.val, joinLines(contents, symbols.space[1]),
                              call.maxLineLength)

C23_Witness ==
    /\ headingDone /\ call.tempoText # None /\ call.metronomeMark # None
    /\ call.keySignature # None /\ call.timeSignature # None
    /\ Len(tempoLines(call.tempoText)) = 3
    /\ Len(splitlines(ret.val, newline)) = 4
    /\ call.maxLineLength = 13
    /\ \A i \in 1..4 : Len(splitlines(ret.val, newline)[i]) = 13


\* C24: a heading of tempo text alone is the lines of the tempo text, one
\* output line for each, every line centred on its own.
C24_TempoTextAlone ==
    (/\ headingDone /\ call.tempoText # None /\ call.metronomeMark = None
     /\ call.keySignature = None /\ call.timeSignature = None) =>
        /\ ret.exc = "none"
        /\ linesCentred(splitlines(ret.val, newline), tempoLines(call.tempoText),
                        call.maxLineLength)

\* C25: the heading fails with BrailleBasicException exactly when nothing can
\* be produced (all four parts None, or no tempo text, no metronome mark and
\* empty signatures); with empty signatures and a tempo text or a metronome
\* mark the heading is the one returned when no signatures are given.
C25_EmptyHeading ==
    headingDone =>
        /\ ret = Raised("BrailleBasicException")
             <=> /\ call.tempoText = None /\ call.metronomeMark = None
                 /\ signaturesEmpty(call.keySignature, call.timeSignature)
        /\ (/\ signaturesEmpty(call.keySignature, call.timeSignature)
            /\ (call.tempoText # None \/ call.metronomeMark # None)) =>
               ret = transcribeHeading(None, None, call.tempoText, call.metronomeMark,
                                       call.maxLineLength)

-----------------------------------------------------------------------------
(* Tempo text                                                               *)

\* the glyphs of the phrases of a text without blanks and line breaks: the
\* words in order, a comma after every phrase but the last
RECURSIVE phraseGlyphs(_)
phraseGlyphs(allPhrases) ==
    Join([ i \in DOMAIN split(Head(allPhrases)) |->
             wordToBraille(split(Head(allPhrases))[i], FALSE).val ])
    \o (IF Len(allPhrases) = 1 THEN <<>>
        ELSE alphabet[","] \o phraseGlyphs(Tail(allPhrases)))

\* every word of the text has glyphs and is no longer than the width
wordsFit(text, width) ==
    \A p \in DOMAIN splitOn(text, ",") : \A w \in DOMAIN split(splitOn(text, ",")[p]) :
        /\ wordToBraille(split(splitOn(text, ",")[p])[w], FALSE).exc = "none"
        /\ Len(wordToBraille(split(splitOn(text, ",")[p])[w], FALSE).val) <= width

\* C26: when every word fits in maxLineLength - 6 cells, no line of the tempo
\* text holds more than maxLineLength - 6 cells; the phrases come in order,
\* every phrase but the last followed by a comma and a line break, and the
\* text ends with exactly one literary period.
C26_TempoTextLines ==
    (/\ pc = "done" /\ call.fn = "tempoTextToBraille"
     /\ wordsFit(call.elem.text, call.maxLineLength - 6)) =>
        /\ ret.exc = "none"
        /\ \A i \in DOMAIN splitlines(ret.val, newline) :
               Len(splitlines(ret.val, newline)[i]) <= call.maxLineLength - 6
        /\ SelectSeq(ret.val, LAMBDA c : c \notin { newline, symbols.space[1] })
             = phraseGlyphs(splitOn(call.elem.text, ",")) \o alphabet["."]
        /\ \A i \in DOMAIN ret.val :
               ret.val[i] = alphabet[","][1] => ret.val[i + 1] = newline

-----------------------------------------------------------------------------
(* The elements after a call                                                *)

\* C27: a call of noteToBraille, chordToBraille or transcribeNoteGrouping
\* leaves every element as it was given, the order of a note's articulations
\* included, and leaves the element sequence of the grouping as it was.
C27_ElementsUntouched ==
    pc = "done" =>
        IF call.fn \in { "noteToBraille", "chordToBraille" } THEN << call.elem >> = before
        ELSE call.fn = "none" => grouping = before


-----------------------------------------------------------------------------
(* The place of the dot 3                                                   *)

\* C28: a pass of the loop leaves the outputs written so far in their order,
\* then the dot 3 if it inserts one, then the output of its element if there
\* is one: the dot 3 lies right after the output of the previous element and
\* right before the output of the current element, also when the current
\* element has no output.
C28_Dot3BetweenOutputs ==
    (last # None /\ last.exc = "none") =>
        trans = last.before
                  \o (IF last.inserted THEN << symbols.dot >> ELSE <<>>)
                  \o (IF last.enc.appended THEN << last.enc.out >> ELSE <<>>)

-----------------------------------------------------------------------------
(* Termination                                                              *)

\* the steps a call can still take at most: the passes of the loop that are
\* left, the handler, and the passes of the one retry
stepsLeft ==
    IF pc = "done" THEN 0
    ELSE (1 - depth) * (Len(grouping) + 3)
         + (IF pc = "except" THEN 1 ELSE Len(grouping) + 3 - idx)

-----------------------------------------------------------------------------
(* The interval numbers of a chord                                          *)

\* the simple interval of a generic interval of a second or more: 2 .. 8, the
\* octaves taken off (9 is a second, 15 an octave, 16 a second)
simpleInterval(g) == ((g - 2) % 7) + 2

\* the interval glyphs of a string, in order
intervalGlyphs(s) == SelectSeq(s, LAMBDA c : \E i \in DOMAIN intervals : intervals[i] = << c >>)

\* C30: for every chord whose base note has a glyph and whose other pitches
\* are a second or more from the base, the interval numbers chordToBraille
\* writes are, in order, the simple intervals (2 .. 8) of the pitches from the
\* base, whatever the generic distance (two octaves and more included).
C30_SimpleIntervals ==
    (/\ pc = "done" /\ call.fn = "chordToBraille"
     /\ call.elem.type \in DOMAIN pitchNameToNotes("C")
     /\ \A i \in 2..Len(call.elem.pitches) :
            genericUndirected(allPitchesOf(call.elem, call.descending)[1],
                              allPitchesOf(call.elem, call.descending)[i]) >= 2) =>
        /\ ret.exc = "none"
        /\ intervalGlyphs(ret.val)
             = [ i \in 1..(Len(call.elem.pitches) - 1) |->
                   intervals[simpleInterval(
                       genericUndirected(allPitchesOf(call.elem, call.descending)[1],
                                         allPitchesOf(call.elem, call.descending)[i + 1]))][1] ]

=============================================================================
